---- MODULE Spec2Model ----
(***************************************************************************)
(* nmon2plotly: the line scan of parse_nmon_file, the extra passes of      *)
(* process_file (FCREAD/FCWRITE, NETSIZE, FCXFERIN/FCXFEROUT) and the     *)
(* document assembly                                                       *)
(* (build_all_docs, the enrichment loop, build_top_docs).                  *)
(*                                                                         *)
(* A line is the sequence of its comma-separated fields (`parts`); TLA+    *)
(* sequences start at 1, so Python's parts[i] is parts[i+1] here, written  *)
(* P(parts, i).  A field is a string; its characters are given by Chars    *)
(* (code points), and startswith, strip, `in`, the date pattern, float()   *)
(* and sorted() are computed on those characters.  Numbers are held in     *)
(* thousandths (5.0 is 5000) so that the decimals of the capture format    *)
(* are exact.                                                              *)
(*                                                                         *)
(* process_file reads the file four times (parse_nmon_file, then the FC,   *)
(* NETSIZE and FCXFER passes).  The passes share no state and each sees    *)
(* the same lines in the same order, so the model feeds every line to all  *)
(* four as it is read; the assembly runs after the last line.              *)
(*                                                                         *)
(* The variables of parse_nmon_file and process_file are locals of one     *)
(* call.  Two calls are modelled by keeping the locals of the call that    *)
(* is not running in `other`.  main is modelled above process_file: a      *)
(* task per file, each returning or raising, then the merge by node        *)
(* identifier.                                                             *)
(***************************************************************************)
EXTENDS Integers, Sequences, FiniteSets, TLC

\* Longest file explored, in lines.
MaxLines == 4

\* A file holds rows of at most this many discovered-schema sections.
MaxSections == 1

\* Longest file explored when a file is parsed a second time next to
\* another one (SpecTwice), in lines.
MaxFile == 2

\* Most capture files in the input directory (SpecMain).
MaxFiles == 3

\* Most worker processes of the pool: --processes.
Procs == 2

\* Longest file explored in SpecTwin, in groups of lines (one line per
\* discovered-schema section key).
MaxGroups == 3

-----------------------------------------------------------------------------
(* Text                                                                    *)

\* The code points of every field text the model feeds to the parser.
Chars(s) ==
  CASE s = ""            -> << >>
    [] s = " "           -> <<32>>
    [] s = "5"           -> <<53>>
    [] s = "7"           -> <<55>>
    [] s = " 7"          -> <<32, 55>>
    [] s = "-3"          -> <<45, 51>>
    [] s = "x"           -> <<120>>
    [] s = "0"           -> <<48>>
    [] s = "10"          -> <<49, 48>>
    [] s = "30"          -> <<51, 48>>
    [] s = "101"         -> <<49, 48, 49>>
    [] s = "102"         -> <<49, 48, 50>>
    [] s = "103"         -> <<49, 48, 51>>
    [] s = "104"         -> <<49, 48, 52>>
    [] s = "105"         -> <<49, 48, 53>>
    [] s = "106"         -> <<49, 48, 54>>
    [] s = "a"           -> <<97>>
    [] s = "b"           -> <<98>>
    [] s = "01"          -> <<48, 49>>
    [] s = "02"          -> <<48, 50>>
    [] s = "CPU01"       -> <<67, 80, 85, 48, 49>>
    [] s = "CPU02"       -> <<67, 80, 85, 48, 50>>
    [] s = "CPU_ALL"     -> <<67, 80, 85, 95, 65, 76, 76>>
    [] s = "ZZZZ"        -> <<90, 90, 90, 90>>
    [] s = "0.02"        -> <<48, 46, 48, 50>>
    [] s = "0.04"        -> <<48, 46, 48, 52>>
    [] s = "0.2"         -> <<48, 46, 50>>
    [] s = "0.01"        -> <<48, 46, 48, 49>>
    [] s = "0.10"        -> <<48, 46, 49, 48>>
    [] s = "0.20"        -> <<48, 46, 50, 48>>
    [] s = "T10"         -> <<84, 49, 48>>
    [] s = "T2"          -> <<84, 50>>
    [] s = "Disk"        -> <<68, 105, 115, 107>>
    [] s = "File I/O"    -> <<70, 105, 108, 101, 32, 73, 47, 79>>
    [] s = "T File I/O"  -> <<84, 32, 70, 105, 108, 101, 32, 73, 47, 79>>
    [] s = "01-JAN-2025" -> <<48, 49, 45, 74, 65, 78, 45, 50, 48, 50, 53>>
    [] s = "02-feb-2025" -> <<48, 50, 45, 102, 101, 98, 45, 50, 48, 50, 53>>
    [] s = "1-JAN-25"    -> <<49, 45, 74, 65, 78, 45, 50, 53>>
    [] s = " 1-JAN-25"   -> <<32, 49, 45, 74, 65, 78, 45, 50, 53>>

AllTexts ==
  {"", " ", "5", "7", " 7", "-3", "x", "0", "10", "30", "101", "102", "103", "104", "105", "106", "a", "b", "01", "02", "CPU01",
   "CPU02", "CPU_ALL", "ZZZZ", "0.02", "0.04", "0.2", "0.01", "0.10", "0.20", "T10", "T2", "Disk", "File I/O",
   "T File I/O", "01-JAN-2025", "02-feb-2025", "1-JAN-25", " 1-JAN-25"}

\* The text with the given code points.
Text(cs) == CHOOSE s \in AllTexts : Chars(s) = cs

Range(f) == {f[i] : i \in DOMAIN f}

\* Python's parts[i] and parts[i:].
P(parts, i) == parts[i + 1]
From(parts, i) == SubSeq(parts, i + 1, Len(parts))

IsSpace(c) == c \in {9, 10, 11, 12, 13, 32}
IsDigit(c) == c >= 48 /\ c <= 57

RECURSIVE LStrip(_)
LStrip(cs) ==
  IF cs # << >> /\ IsSpace(Head(cs)) THEN LStrip(Tail(cs)) ELSE cs

RECURSIVE RStrip(_)
RStrip(cs) ==
  IF cs # << >> /\ IsSpace(cs[Len(cs)])
  THEN RStrip(SubSeq(cs, 1, Len(cs) - 1))
  ELSE cs

\* str.strip()
Strip(s) ==
  LET cs == Chars(s)
  IN IF cs = << >> \/ (~IsSpace(cs[1]) /\ ~IsSpace(cs[Len(cs)]))
     THEN s
     ELSE Text(RStrip(LStrip(cs)))

\* str.startswith(prefix)
StartsWith(s, prefix) ==
  LET cs == Chars(s)
      ps == Chars(prefix)
  IN Len(cs) >= Len(ps) /\ SubSeq(cs, 1, Len(ps)) = ps

\* parts[1].startswith('T'): the test for "this row carries a tag".
StartsWithT(s) == Chars(s) # << >> /\ Chars(s)[1] = 84

\* sub in s
Contains(s, sub) ==
  LET cs == Chars(s)
      ps == Chars(sub)
  IN \E i \in 0..(Len(cs) - Len(ps)) : SubSeq(cs, i + 1, i + Len(ps)) = ps

\* str.upper() on code points.
Upper(cs) == [i \in DOMAIN cs |-> IF cs[i] >= 97 /\ cs[i] <= 122 THEN cs[i] - 32 ELSE cs[i]]

\* re.match(r'^\d{2}-[A-Z]{3}-\d{4}$', date_str.upper())
DateMatches(s) ==
  LET u == Upper(Chars(s))
  IN /\ Len(u) = 11
     /\ \A i \in {1, 2, 8, 9, 10, 11} : IsDigit(u[i])
     /\ \A i \in {3, 7} : u[i] = 45
     /\ \A i \in {4, 5, 6} : u[i] >= 65 /\ u[i] <= 90

\* Lexical order of two strings, as Python compares str: by code point,
\* a proper prefix first.
RECURSIVE LexLess(_, _)
LexLess(a, b) ==
  IF b = << >> THEN FALSE
  ELSE IF a = << >> THEN TRUE
  ELSE IF Head(a) # Head(b) THEN Head(a) < Head(b)
  ELSE LexLess(Tail(a), Tail(b))

StrLess(s, t) == LexLess(Chars(s), Chars(t))

\* sorted(S) for a set of strings.
RECURSIVE Sorted(_)
Sorted(S) ==
  IF S = {} THEN << >>
  ELSE LET m == CHOOSE x \in S : \A y \in S \ {x} : StrLess(x, y)
       IN <<m>> \o Sorted(S \ {m})

-----------------------------------------------------------------------------
(* Numbers                                                                 *)

RECURSIVE DigitsVal(_)
DigitsVal(cs) ==
  IF cs = << >> THEN 0
  ELSE 10 * DigitsVal(SubSeq(cs, 1, Len(cs) - 1)) + (cs[Len(cs)] - 48)

AllDigits(cs) == \A i \in DOMAIN cs : IsDigit(cs[i])

\* Thousandths denoted by the fraction digits after the point (at most 3).
FracVal(cs) ==
  CASE Len(cs) = 0 -> 0
    [] Len(cs) = 1 -> 100 * DigitsVal(cs)
    [] Len(cs) = 2 -> 10 * DigitsVal(cs)
    [] Len(cs) = 3 -> DigitsVal(cs)

\* An unsigned decimal: digits, optionally a point and digits, not "." alone.
UnsignedOk(cs) ==
  LET dots == {i \in DOMAIN cs : cs[i] = 46}
  IN /\ cs # << >>
     /\ Cardinality(dots) <= 1
     /\ \A i \in DOMAIN cs : IsDigit(cs[i]) \/ cs[i] = 46
     /\ \E i \in DOMAIN cs : IsDigit(cs[i])
     /\ \A i \in dots : Len(cs) - i <= 3

UnsignedVal(cs) ==
  LET dots == {i \in DOMAIN cs : cs[i] = 46}
  IN IF dots = {} THEN 1000 * DigitsVal(cs)
     ELSE LET d == CHOOSE i \in dots : TRUE
          IN 1000 * DigitsVal(SubSeq(cs, 1, d - 1))
             + FracVal(SubSeq(cs, d + 1, Len(cs)))

\* float(x): surrounding whitespace is ignored, then an optional sign and a
\* decimal.  FloatOk is "float(x) does not raise ValueError".  (The
\* exponent, inf/nan and underscore forms float() also accepts are not in
\* the texts fed to the model.)
FloatBody(s) == RStrip(LStrip(Chars(s)))

FloatOk(s) ==
  LET cs == FloatBody(s)
  IN /\ cs # << >>
     /\ IF Head(cs) \in {43, 45} THEN UnsignedOk(Tail(cs)) ELSE UnsignedOk(cs)

Float(s) ==
  LET cs == FloatBody(s)
  IN IF Head(cs) = 45 THEN 0 - UnsignedVal(Tail(cs))
     ELSE IF Head(cs) = 43 THEN UnsignedVal(Tail(cs))
     ELSE UnsignedVal(cs)

\* The element of numeric_vals for one field:
\*   try: float(x.strip()) if x.strip() else 0.0   except: 0.0
NumericVal(x) ==
  IF Strip(x) # "" /\ FloatOk(Strip(x)) THEN Float(Strip(x)) ELSE 0

\* numeric_vals for parts[2:]
NumericVals(parts) ==
  [i \in 1..(Len(parts) - 2) |-> NumericVal(parts[i + 2])]

-----------------------------------------------------------------------------
(* Python dicts                                                            *)

\* A dict is a function on its key set.  Iteration order is kept beside it
\* (zzzz_order, top_order) only where the code iterates the dict.
EmptyDict == [k \in {} |-> 0]

Put(d, k, v) == [x \in (DOMAIN d) \cup {k} |-> IF x = k THEN v ELSE d[x]]

\* d.update(e)
Update(d, e) ==
  [x \in (DOMAIN d) \cup (DOMAIN e) |-> IF x \in DOMAIN e THEN e[x] ELSE d[x]]

\* d = {}; for i, col_name in enumerate(cols):
\*     d[col_name] = numeric_vals[i] if i < len(numeric_vals) else 0.0
\* A name that occurs twice in cols keeps the value of its last position.
Decode(cols, vals) ==
  [c \in Range(cols) |->
     LET last == CHOOSE i \in DOMAIN cols :
                   cols[i] = c /\ \A j \in DOMAIN cols : cols[j] = c => j <= i
     IN IF last <= Len(vals) THEN vals[last] ELSE 0]

NoneStr == "<None>"

\* Python truthiness of a str-or-None.
Truthy(s) == s # NoneStr /\ s # ""

-----------------------------------------------------------------------------
(* State                                                                   *)

\* Section keys of the discovered-schema sections of parse_nmon_file, and
\* the field each is stored under in a document.
DiskVgKeys ==
  {"DISKREAD", "DISKWRITE", "DISKBUSY", "DISKWAIT",
   "VGREAD", "VGWRITE", "VGBUSY", "VGSIZE"}
NetKeys == {"NET", "NETPACKET"}
JfsSeaKeys == {"JFSFILE", "SEACHPHY", "SEA", "SEAPACKET"}
DiscKeys == {"FILE"} \cup NetKeys \cup DiskVgKeys \cup JfsSeaKeys

\* Header variables of the FC passes of process_file.
FcKeys == {"FCREAD", "FCWRITE", "FCXFERIN", "FCXFEROUT"}

\* The keys of the fixed-schema sections.
FixedKeys == {"CPU_ALL", "LPAR", "PROC", "MEMNEW", "MEM", "MEMUSE", "PAGE"}

OutName(key) ==
  CASE key = "FILE"      -> "file_io"
    [] key = "NET"       -> "net"
    [] key = "NETPACKET" -> "netpacket"
    [] key = "DISKREAD"  -> "diskread"
    [] key = "DISKWRITE" -> "diskwrite"
    [] key = "DISKBUSY"  -> "diskbusy"
    [] key = "DISKWAIT"  -> "diskwait"
    [] key = "VGREAD"    -> "vgread"
    [] key = "VGWRITE"   -> "vgwrite"
    [] key = "VGBUSY"    -> "vgbusy"
    [] key = "VGSIZE"    -> "vgsize"
    [] key = "JFSFILE"   -> "jfsfile"
    [] key = "SEACHPHY"  -> "seachphy"
    [] key = "SEA"       -> "sea"
    [] key = "SEAPACKET" -> "seapacket"

\* The sections build_all_docs is given, in the order it adds them.
BaseSections ==
  {"cpu_all", "lpar", "proc", "file_io", "memnew", "mem", "net", "netpacket",
   "diskread", "diskwrite", "diskbusy", "diskwait",
   "vgread", "vgwrite", "vgbusy", "vgsize"}

\* The single-record sections the loop of process_file adds afterwards
\* (cpu_use, which it also adds, is finalized from cpu_use_data_by_tag).
EnrichSections ==
  {"netsize", "fc", "fcxfer", "jfsfile", "memuse", "page",
   "sea", "seachphy", "seapacket", "mem_mb"}

Sections == BaseSections \cup EnrichSections

VARIABLES
  pc,                  \* "scan" while lines are read, "done" after assembly
  nlines,              \* lines read so far
  parts,               \* the fields of the line just read
  zzzz_map,            \* tag -> timestamp
  zzzz_order,          \* the keys of zzzz_map in insertion order
  node,                \* NodeName seen, or None
  fallback_date,       \* AAA,date seen, or None
  header_parsed,       \* section key -> BOOLEAN  (X_header_parsed)
  header,              \* section key -> column names (X_header / X_columns)
  data_by_tag,         \* section -> (tag -> record)  (X_data_by_tag)
  top_data_by_tag,     \* tag -> list of process samples
  top_order,           \* the keys of top_data_by_tag in insertion order
  cpu_use_data_by_tag, \* tag -> (core id -> user_sum, sys_sum, count)
  all_docs,            \* the merged documents returned by process_file
  all_docs_tag,        \* for each of all_docs, the tag it was built for
  top_docs,            \* the process-sample records returned
  top_docs_tag,        \* for each of top_docs, the tag it was built for
  node_out,            \* the node identifier returned
  phase,               \* "single": one call of process_file; "first": a
                       \* call whose file is kept; "both": that file is
                       \* parsed again by call 1 while call 2 parses another;
                       \* "log": a call whose file is kept; "moved": a call
                       \* on that file with its timestamp rows moved
  file,                \* the lines read by the call of phase "first" or "log"
  first,               \* the local variables of that call before each of
                       \* its steps, and at its end
  other,               \* the local variables of the call that is not running
  turn,                \* the call that is running: 1 or 2
  moved,               \* phase "moved": the places in `file` of the lines
                       \* read so far, in the order they are read
  mpc,                 \* main: "none" (not running), "pool", "merge",
                       \* "done", or "raised" (an exception left main)
  task,                \* file -> "queued", "running", "returned", "raised"
  task_out,            \* file -> what process_file returned for it
  finished,            \* the files in the order their tasks ended
  merged,              \* results the merge loop has been through
  lpar_data_map,       \* node identifier -> merged documents
  top_data_map         \* node identifier -> merged process samples

\* The local variables of one call of process_file, and what it returns.
locals ==
  <<pc, nlines, parts, zzzz_map, zzzz_order, node, fallback_date,
    header_parsed, header, data_by_tag, top_data_by_tag, top_order,
    cpu_use_data_by_tag, all_docs, all_docs_tag, top_docs, top_docs_tag,
    node_out>>

callvars == <<phase, file, first, other, turn, moved>>

mainvars ==
  <<mpc, task, task_out, finished, merged, lpar_data_map, top_data_map>>

vars == <<locals, callvars, mainvars>>

\* The state of parse_nmon_file before the first line (lines 39-123), and
\* of the passes of process_file (lines 2817-2819, 2861, 2885-2887).
InitLocals ==
  /\ pc = "scan"
  /\ nlines = 0
  /\ parts = << >>
  /\ zzzz_map = EmptyDict
  /\ zzzz_order = << >>
  /\ node = NoneStr
  /\ fallback_date = NoneStr
  /\ header_parsed = [k \in DiscKeys |-> FALSE]
  /\ header = [k \in DiscKeys \cup FcKeys |-> << >>]
  /\ data_by_tag = [s \in Sections |-> EmptyDict]
  /\ top_data_by_tag = EmptyDict
  /\ top_order = << >>
  /\ cpu_use_data_by_tag = EmptyDict
  /\ all_docs = << >>
  /\ all_docs_tag = << >>
  /\ top_docs = << >>
  /\ top_docs_tag = << >>
  /\ node_out = NoneStr

\* Mutant: the process-sample accumulator outlives the call.
Fresh_StaleTop ==
  [pc |-> "scan", nlines |-> 0, parts |-> << >>,
   zzzz_map |-> EmptyDict, zzzz_order |-> << >>,
   node |-> NoneStr, fallback_date |-> NoneStr,
   header_parsed |-> [k \in DiscKeys |-> FALSE],
   header |-> [k \in DiscKeys \cup FcKeys |-> << >>],
   data_by_tag |-> [s \in Sections |-> EmptyDict],
   top_data_by_tag |-> top_data_by_tag, top_order |-> top_order,
   cpu_use_data_by_tag |-> EmptyDict,
   all_docs |-> << >>, all_docs_tag |-> << >>,
   top_docs |-> << >>, top_docs_tag |-> << >>,
   node_out |-> NoneStr]

\* The same values as a record: what a call of process_file starts from,
\* whatever ran before it or runs next to it (its variables are locals).
Fresh ==
  [pc |-> "scan", nlines |-> 0, parts |-> << >>,
   zzzz_map |-> EmptyDict, zzzz_order |-> << >>,
   node |-> NoneStr, fallback_date |-> NoneStr,
   header_parsed |-> [k \in DiscKeys |-> FALSE],
   header |-> [k \in DiscKeys \cup FcKeys |-> << >>],
   data_by_tag |-> [s \in Sections |-> EmptyDict],
   top_data_by_tag |-> EmptyDict, top_order |-> << >>,
   cpu_use_data_by_tag |-> EmptyDict,
   all_docs |-> << >>, all_docs_tag |-> << >>,
   top_docs |-> << >>, top_docs_tag |-> << >>,
   node_out |-> NoneStr]

\* The local variables of the running call, as a record.
Locals ==
  [pc |-> pc, nlines |-> nlines, parts |-> parts,
   zzzz_map |-> zzzz_map, zzzz_order |-> zzzz_order,
   node |-> node, fallback_date |-> fallback_date,
   header_parsed |-> header_parsed, header |-> header,
   data_by_tag |-> data_by_tag,
   top_data_by_tag |-> top_data_by_tag, top_order |-> top_order,
   cpu_use_data_by_tag |-> cpu_use_data_by_tag,
   all_docs |-> all_docs, all_docs_tag |-> all_docs_tag,
   top_docs |-> top_docs, top_docs_tag |-> top_docs_tag,
   node_out |-> node_out]

\* main is not running.
NoMain ==
  /\ mpc = "none"
  /\ task = << >>
  /\ task_out = << >>
  /\ finished = << >>
  /\ merged = 0
  /\ lpar_data_map = EmptyDict
  /\ top_data_map = EmptyDict

\* One call of process_file on one file.
Init ==
  /\ InitLocals
  /\ phase = "single"
  /\ file = << >>
  /\ first = << >>
  /\ other = Fresh
  /\ turn = 1
  /\ moved = << >>
  /\ NoMain

\* re.match(r'^CPU\d+$', key)
IsCoreKey(key) ==
  LET cs == Chars(key)
  IN Len(cs) > 3 /\ SubSeq(cs, 1, 3) = <<67, 80, 85>>
     /\ AllDigits(SubSeq(cs, 4, Len(cs)))

\* Mutant: the branches without their len(parts) tests.
MaxRead_Unguarded(row) ==
  LET key == P(row, 0)
  IN CASE key = "ZZZZ" -> 3
       [] key \in {"AAA", "TOP"} -> 2
       [] OTHER -> 1

\* The highest index of parts that a line's branch reads outside a try
\* block.  Every branch tests len(parts) before it reads: ZZZZ (line 134)
\* reads parts[1..3] after len(parts) >= 4; AAA (line 361) and TOP (line
\* 221) read parts[2] after len(parts) > 2; the other branches read
\* parts[1] after len(parts) > 1 or len(parts) > 2 and take slices, which
\* never fail; a line of an unknown key is read no further than parts[0].
MaxRead(row) ==
  LET key == P(row, 0)
      n   == Len(row)
  IN CASE key = "ZZZZ" -> IF n >= 4 THEN 3 ELSE 0
       [] key \in {"AAA", "TOP"} -> IF n > 2 THEN 2 ELSE 0
       [] key \in FixedKeys \cup DiscKeys \cup FcKeys \cup {"NETSIZE"} ->
            IF n > 1 THEN 1 ELSE 0
       [] IsCoreKey(key) -> IF n > 1 THEN 1 ELSE 0
       [] OTHER -> 0

\* An IndexError outside every try block: it leaves parse_nmon_file and
\* process_file.
Escapes(row) == MaxRead(row) >= Len(row)

\* A timestamp row.
IsZzzz(row) == P(row, 0) = "ZZZZ"

\* The places of `file` a file with its timestamp rows moved can have
\* next: the first unread timestamp row and the first unread other row.
\* The timestamp rows keep their order, and so do the other rows.
Candidates ==
  {i \in DOMAIN file :
     /\ \A k \in DOMAIN moved : moved[k] # i
     /\ \A j \in 1..(i - 1) :
          IsZzzz(file[j]) = IsZzzz(file[i]) => \E k \in DOMAIN moved : moved[k] = j}

\* The next line of the file: any line for a file read for the first
\* time, the same line as before for a file that is read again, one of
\* the candidates for a file with its timestamp rows moved.
Fed(row) ==
  CASE phase \in {"single", "log"} -> TRUE
    [] phase = "both" /\ turn = 1 ->
         nlines < Len(file) /\ row = file[nlines + 1]
    [] phase = "moved" -> \E i \in Candidates : file[i] = row
    [] OTHER -> nlines < MaxFile

\* Reading one more line: the loop of lines 126-132.
ReadLine(row) ==
  /\ pc = "scan"
  /\ nlines < MaxLines
  /\ Fed(row)
  /\ nlines' = nlines + 1
  /\ parts' = row
  /\ pc' = IF Escapes(row) THEN "error" ELSE "scan"
  /\ file' = IF phase \in {"first", "log"} THEN Append(file, row) ELSE file
  /\ first' = IF phase = "first" THEN Append(first, Locals) ELSE first
  /\ moved' = IF phase = "moved"
              THEN Append(moved, CHOOSE i \in Candidates : file[i] = row)
              ELSE moved
  /\ UNCHANGED <<all_docs, all_docs_tag, top_docs, top_docs_tag, node_out>>
  /\ UNCHANGED <<phase, other, turn>>
  /\ UNCHANGED mainvars

-----------------------------------------------------------------------------
(* Discovered-schema sections of parse_nmon_file                           *)

\* One section's variables: X_header_parsed, X_header, X_data_by_tag.
Sec(key) ==
  [parsed |-> header_parsed[key],
   cols   |-> header[key],
   recs   |-> data_by_tag[OutName(key)]]

\* Mutant: the values are taken from parts[1:], the tag included.
DataRecord_FromTag(cols, row) ==
  Decode(cols, [i \in 1..(Len(row) - 1) |-> NumericVal(row[i + 1])])

\* The record stored for a data row: lines 265-274 and their copies.
DataRecord(cols, row) == Decode(cols, NumericVals(row))

\* FILE, lines 258-275.
FileStep(s, row) ==
  IF ~s.parsed /\ Len(row) > 2 /\ Contains(P(row, 1), "File I/O")
  THEN [s EXCEPT !.cols = From(row, 2), !.parsed = TRUE]
  ELSE IF Len(row) > 1 /\ StartsWithT(P(row, 1)) /\ s.parsed
  THEN [s EXCEPT !.recs = Put(@, P(row, 1), DataRecord(s.cols, row))]
  ELSE s

\* Mutant: NET without the `if not net_header_parsed` test.
NetStep_Recapture(s, row) ==
  IF Len(row) > 2 /\ ~StartsWithT(P(row, 1))
  THEN [s EXCEPT !.cols = From(row, 2), !.parsed = TRUE]
  ELSE IF Len(row) > 2 /\ StartsWithT(P(row, 1))
  THEN [s EXCEPT !.recs = Put(@, P(row, 1), DataRecord(s.cols, row))]
  ELSE s

\* NET, lines 323-340, and NETPACKET, lines 342-359.
NetStep(s, row) ==
  IF Len(row) > 2 /\ ~StartsWithT(P(row, 1))
  THEN IF ~s.parsed
       THEN [s EXCEPT !.cols = From(row, 2), !.parsed = TRUE]
       ELSE s
  ELSE IF Len(row) > 2 /\ StartsWithT(P(row, 1))
  THEN [s EXCEPT !.recs = Put(@, P(row, 1), DataRecord(s.cols, row))]
  ELSE s

\* DISKREAD, lines 371-388, and its copies DISKWRITE, DISKBUSY, DISKWAIT,
\* VGREAD, VGWRITE, VGBUSY, VGSIZE (lines 390-523).
DiskStep(s, row) ==
  IF ~s.parsed /\ Len(row) > 2 /\ ~StartsWithT(P(row, 1))
  THEN [s EXCEPT !.cols = From(row, 2), !.parsed = TRUE]
  ELSE IF Len(row) > 2 /\ StartsWithT(P(row, 1)) /\ s.parsed
  THEN [s EXCEPT !.recs = Put(@, P(row, 1), DataRecord(s.cols, row))]
  ELSE s

\* JFSFILE, lines 527-545, and its copies SEACHPHY, SEA, SEAPACKET
\* (lines 593-650).
JfsStep(s, row) ==
  IF ~s.parsed /\ Len(row) > 2 /\ ~StartsWithT(P(row, 1))
  THEN [s EXCEPT !.cols = From(row, 2), !.parsed = TRUE]
  ELSE IF Len(row) > 1 /\ StartsWithT(P(row, 1)) /\ s.parsed
  THEN [s EXCEPT !.recs = Put(@, P(row, 1), DataRecord(s.cols, row))]
  ELSE s

\* The branch of the scan loop that a section key selects.
DiscStep(key, s, row) ==
  CASE key = "FILE"       -> FileStep(s, row)
    [] key \in NetKeys    -> NetStep(s, row)
    [] key \in DiskVgKeys -> DiskStep(s, row)
    [] key \in JfsSeaKeys -> JfsStep(s, row)

\* A section some line of the file has already changed.
Touched(key) == header_parsed[key] \/ data_by_tag[OutName(key)] # EmptyDict

\* The variables no discovered-schema row changes.
NotDisc ==
  <<zzzz_map, zzzz_order, node, fallback_date, top_data_by_tag, top_order,
    cpu_use_data_by_tag>>

\* Mutant: the sections of one family (DISK*/VG*, JFSFILE/SEA*, NET*)
\* share the flag that says the header was captured.
DiscLine_SharedFlag(row) ==
  LET key == P(row, 0)
      n   == DiscStep(key, Sec(key), row)
      family == IF key \in DiskVgKeys THEN DiskVgKeys
                ELSE IF key \in JfsSeaKeys THEN JfsSeaKeys
                ELSE IF key \in NetKeys THEN NetKeys ELSE {key}
  IN /\ ReadLine(row)
     /\ header_parsed' = [k \in DOMAIN header_parsed |->
                            IF k \in family THEN n.parsed ELSE header_parsed[k]]
     /\ header' = [header EXCEPT ![key] = n.cols]
     /\ data_by_tag' = [data_by_tag EXCEPT ![OutName(key)] = n.recs]
     /\ UNCHANGED NotDisc

\* A line of a discovered-schema section is read: the branch of its key
\* works on the header variables and the tag map of that section.
DiscLine(row) ==
  LET key == P(row, 0)
      n   == DiscStep(key, Sec(key), row)
  IN /\ ReadLine(row)
     /\ header_parsed' = [header_parsed EXCEPT ![key] = n.parsed]
     /\ header' = [header EXCEPT ![key] = n.cols]
     /\ data_by_tag' = [data_by_tag EXCEPT ![OutName(key)] = n.recs]
     /\ UNCHANGED NotDisc

\* The same, in a file that has lines of at most MaxSections sections of
\* this kind.
ParseDisc(row) ==
  /\ Cardinality({k \in DiscKeys : Touched(k)} \cup {P(row, 0)}) <= MaxSections
  /\ DiscLine(row)

-----------------------------------------------------------------------------
(* Fixed-schema sections of parse_nmon_file                                *)

\* float(parts[i]) if parts[i].strip() else 0.0
\* raises IndexError when the row has no field i and ValueError when the
\* field is neither blank nor a number; both are caught by the section's
\* `except: pass`, which leaves the section as it was.
FieldOk(row, i) ==
  i < Len(row) /\ (Strip(P(row, i)) = "" \/ FloatOk(P(row, i)))
FieldVal(row, i) == IF Strip(P(row, i)) = "" THEN 0 ELSE Float(P(row, i))

\* float(parts[i]) if len(parts) > i and parts[i].strip() else 0.0
OptOk(row, i) ==
  i >= Len(row) \/ Strip(P(row, i)) = "" \/ FloatOk(P(row, i))
OptVal(row, i) ==
  IF i < Len(row) /\ Strip(P(row, i)) # "" THEN Float(P(row, i)) ELSE 0

\* The guard every fixed-schema branch starts with.
Tagged(row) == Len(row) > 1 /\ StartsWithT(P(row, 1))

\* Mutant: the sign is flipped.
NegAbs_Negate(x) == 0 - x

\* -abs(x)
NegAbs(x) == IF x < 0 THEN x ELSE 0 - x

\* CPU_ALL, lines 144-155.
CpuAllOk(row) == \A i \in 2..5 : FieldOk(row, i)
CpuAllRec(row) ==
  ("User%" :> FieldVal(row, 2)) @@ ("Sys%" :> FieldVal(row, 3))
  @@ ("Wait%" :> FieldVal(row, 4)) @@ ("Idle%" :> FieldVal(row, 5))

\* LPAR, lines 176-189.
LparOk(row) == FieldOk(row, 2) /\ FieldOk(row, 3) /\ OptOk(row, 6)
LparRec(row) ==
  ("PhysicalCPU" :> FieldVal(row, 2)) @@ ("VirtualCPUs" :> FieldVal(row, 3))
  @@ ("Entitled" :> OptVal(row, 6))

\* PROC, lines 191-219.
ProcOk(row) ==
  (\A i \in 2..7 : FieldOk(row, i)) /\ (\A i \in 8..11 : OptOk(row, i))
ProcRec(row) ==
  ("Runnable" :> FieldVal(row, 2)) @@ ("Swap-in" :> FieldVal(row, 3))
  @@ ("pswitch" :> FieldVal(row, 4)) @@ ("Syscall" :> FieldVal(row, 5))
  @@ ("Read" :> FieldVal(row, 6)) @@ ("Write" :> FieldVal(row, 7))
  @@ ("fork" :> OptVal(row, 8)) @@ ("exec" :> OptVal(row, 9))
  @@ ("sem" :> OptVal(row, 10)) @@ ("msg" :> OptVal(row, 11))

\* MEMNEW, lines 277-290.
MemnewOk(row) ==
  (\A i \in 2..5 : FieldOk(row, i)) /\ OptOk(row, 6) /\ OptOk(row, 7)
MemnewRec(row) ==
  ("Process%" :> FieldVal(row, 2)) @@ ("FScache%" :> FieldVal(row, 3))
  @@ ("System%" :> FieldVal(row, 4)) @@ ("Free%" :> FieldVal(row, 5))
  @@ ("Pinned%" :> OptVal(row, 6)) @@ ("User%" :> OptVal(row, 7))

\* Mutant: the free percentages are stored as they are.
MemRec_Free(row) ==
  ("Real_Used%" :> FieldVal(row, 2)) @@ ("Virtual_Used%" :> FieldVal(row, 3))

\* MEM, lines 292-321: the percent record is stored before the MB fields
\* are decoded, inside one try block.
MemOk(row) == FieldOk(row, 2) /\ FieldOk(row, 3)
MemRec(row) ==
  ("Real_Used%" :> (100000 - FieldVal(row, 2)))
  @@ ("Virtual_Used%" :> (100000 - FieldVal(row, 3)))
MemMbOk(row) == MemOk(row) /\ \A i \in 4..7 : FieldOk(row, i)
MemMbRec(row) ==
  ("Real_Free_MB" :> FieldVal(row, 4)) @@ ("Virtual_Free_MB" :> FieldVal(row, 5))
  @@ ("Real_Total_MB" :> FieldVal(row, 6))
  @@ ("Virtual_Total_MB" :> FieldVal(row, 7))
  @@ ("Real_Used_MB" :> (FieldVal(row, 6) - FieldVal(row, 4)))
  @@ ("Virtual_Used_MB" :> (FieldVal(row, 7) - FieldVal(row, 5)))

\* MEMUSE, lines 549-562.
MemuseOk(row) == \A i \in 2..4 : FieldOk(row, i)
MemuseRec(row) ==
  ("numperm" :> FieldVal(row, 2)) @@ ("minperm" :> FieldVal(row, 3))
  @@ ("maxperm" :> FieldVal(row, 4))

\* PAGE, lines 566-586.
PageOk(row) == \A i \in 3..6 : FieldOk(row, i)
PageRec(row) ==
  ("pgin" :> FieldVal(row, 3)) @@ ("pgout" :> NegAbs(FieldVal(row, 4)))
  @@ ("pgsin" :> FieldVal(row, 5)) @@ ("pgsout" :> NegAbs(FieldVal(row, 6)))

\* The section a fixed-schema key stores under, whether the row decodes,
\* and the record it decodes to.
FixedName(key) ==
  CASE key = "CPU_ALL" -> "cpu_all"
    [] key = "LPAR"    -> "lpar"
    [] key = "PROC"    -> "proc"
    [] key = "MEMNEW"  -> "memnew"
    [] key = "MEM"     -> "mem"
    [] key = "MEMUSE"  -> "memuse"
    [] key = "PAGE"    -> "page"

FixedOk(key, row) ==
  CASE key = "CPU_ALL" -> CpuAllOk(row)
    [] key = "LPAR"    -> LparOk(row)
    [] key = "PROC"    -> ProcOk(row)
    [] key = "MEMNEW"  -> MemnewOk(row)
    [] key = "MEM"     -> MemOk(row)
    [] key = "MEMUSE"  -> MemuseOk(row)
    [] key = "PAGE"    -> PageOk(row)

FixedRec(key, row) ==
  CASE key = "CPU_ALL" -> CpuAllRec(row)
    [] key = "LPAR"    -> LparRec(row)
    [] key = "PROC"    -> ProcRec(row)
    [] key = "MEMNEW"  -> MemnewRec(row)
    [] key = "MEM"     -> MemRec(row)
    [] key = "MEMUSE"  -> MemuseRec(row)
    [] key = "PAGE"    -> PageRec(row)

\* Mutant: the tag's record is emptied before the fields are decoded.
FixedStep_Emptied(key, recs, row) ==
  IF Tagged(row) /\ FixedOk(key, row)
  THEN Put(recs, P(row, 1), FixedRec(key, row))
  ELSE IF Tagged(row) THEN Put(recs, P(row, 1), EmptyDict)
  ELSE recs

\* The tag map of a fixed-schema section after a row of its key.  PROC
\* updates the tag's record with all ten fields (lines 204-216); the others
\* assign it.
FixedStep(key, recs, row) ==
  IF Tagged(row) /\ FixedOk(key, row)
  THEN LET tag == P(row, 1)
           old == IF key = "PROC" /\ tag \in DOMAIN recs
                  THEN recs[tag] ELSE EmptyDict
       IN Put(recs, tag, Update(old, FixedRec(key, row)))
  ELSE recs

\* mem_mb_data_by_tag after a MEM row.
MemMbStep(recs, row) ==
  IF Tagged(row) /\ MemMbOk(row)
  THEN Put(recs, P(row, 1), MemMbRec(row))
  ELSE recs

\* The variables no row of a single-record section changes.
OnlyData ==
  <<zzzz_map, zzzz_order, node, fallback_date, header_parsed, header,
    top_data_by_tag, top_order, cpu_use_data_by_tag>>

\* A line of a fixed-schema section is read.
ParseFixed(row) ==
  LET key == P(row, 0)
  IN /\ ReadLine(row)
     /\ data_by_tag' =
          [data_by_tag EXCEPT
             ![FixedName(key)] = FixedStep(key, @, row),
             !["mem_mb"] = IF key = "MEM" THEN MemMbStep(@, row) ELSE @]
     /\ UNCHANGED OnlyData

-----------------------------------------------------------------------------
(* Timestamps, metadata, process samples, per-core CPU                     *)

\* parse_date_time, lines 15-17.
parse_date_time(date_str, time_str) == date_str \o " " \o time_str

\* Mutant: the fallback date replaces a date that passes the pattern too.
ResolvedDate_Always(row, fallback) ==
  IF Truthy(fallback) THEN fallback ELSE Strip(P(row, 3))

\* Mutant: a date that fails the pattern and has no fallback is dropped.
ResolvedDate_Blank(row, fallback) ==
  LET date_str == Strip(P(row, 3))
  IN IF DateMatches(date_str) THEN date_str
     ELSE IF Truthy(fallback) THEN fallback ELSE ""

\* The date a ZZZZ row resolves to, lines 137-140.
ResolvedDate(row, fallback) ==
  LET date_str == Strip(P(row, 3))
  IN IF ~DateMatches(date_str) /\ Truthy(fallback) THEN fallback ELSE date_str

\* Mutant: a tag keeps the timestamp of its first row.
ParseZzzz_FirstWins(row) ==
  /\ ReadLine(row)
  /\ IF Len(row) >= 4 /\ P(row, 1) \notin DOMAIN zzzz_map
     THEN LET tag == P(row, 1)
              ts  == parse_date_time(ResolvedDate(row, fallback_date), P(row, 2))
          IN /\ zzzz_map' = Put(zzzz_map, tag, ts)
             /\ zzzz_order' = Append(zzzz_order, tag)
     ELSE UNCHANGED <<zzzz_map, zzzz_order>>
  /\ UNCHANGED <<node, fallback_date, header_parsed, header, data_by_tag,
                 top_data_by_tag, top_order, cpu_use_data_by_tag>>

\* ZZZZ, lines 134-142.  A ZZZZ row with fewer than 4 fields matches no
\* branch of the loop.
ParseZzzz(row) ==
  /\ ReadLine(row)
  /\ IF Len(row) >= 4
     THEN LET tag == P(row, 1)
              ts  == parse_date_time(ResolvedDate(row, fallback_date), P(row, 2))
          IN /\ zzzz_map' = Put(zzzz_map, tag, ts)
             /\ zzzz_order' = IF tag \in DOMAIN zzzz_map
                              THEN zzzz_order
                              ELSE Append(zzzz_order, tag)
     ELSE UNCHANGED <<zzzz_map, zzzz_order>>
  /\ UNCHANGED <<node, fallback_date, header_parsed, header, data_by_tag,
                 top_data_by_tag, top_order, cpu_use_data_by_tag>>

\* Mutant: the first NodeName row wins.
ParseAaa_FirstNode(row) ==
  /\ ReadLine(row)
  /\ node' = IF Len(row) > 2 /\ P(row, 1) = "NodeName" /\ node = NoneStr
             THEN P(row, 2) ELSE node
  /\ fallback_date' =
       IF Len(row) > 2 /\ P(row, 1) # "NodeName" /\ P(row, 1) = "date"
       THEN P(row, 2) ELSE fallback_date
  /\ UNCHANGED <<zzzz_map, zzzz_order, header_parsed, header, data_by_tag,
                 top_data_by_tag, top_order, cpu_use_data_by_tag>>

\* AAA, lines 361-367.
ParseAaa(row) ==
  /\ ReadLine(row)
  /\ node' = IF Len(row) > 2 /\ P(row, 1) = "NodeName" THEN P(row, 2) ELSE node
  /\ fallback_date' =
       IF Len(row) > 2 /\ P(row, 1) # "NodeName" /\ P(row, 1) = "date"
       THEN P(row, 2) ELSE fallback_date
  /\ UNCHANGED <<zzzz_map, zzzz_order, header_parsed, header, data_by_tag,
                 top_data_by_tag, top_order, cpu_use_data_by_tag>>

\* Mutant: the tag marker is looked for in parts[1].
TopAccepted_TagAtOne(row) ==
  /\ Len(row) > 2
  /\ StartsWithT(P(row, 1))
  /\ LET cpu_str == IF Len(row) > 3 THEN P(row, 3) ELSE "0"
     IN Strip(cpu_str) = "" \/ FloatOk(cpu_str)

\* Mutant: only a row with fields through parts[13] is accepted.
TopAccepted_Needs14(row) ==
  /\ Len(row) > 13
  /\ StartsWithT(P(row, 2))
  /\ Strip(P(row, 3)) = "" \/ FloatOk(P(row, 3))

\* TOP, lines 221-256: the tag is parts[2].
TopAccepted(row) ==
  /\ Len(row) > 2
  /\ StartsWithT(P(row, 2))
  /\ LET cpu_str == IF Len(row) > 3 THEN P(row, 3) ELSE "0"
     IN Strip(cpu_str) = "" \/ FloatOk(cpu_str)

\* Mutant: char I/O and memory are decoded in one try block.
TopRec_Coupled(row) ==
  LET cpu_str == IF Len(row) > 3 THEN P(row, 3) ELSE "0"
      cmd_str == IF Len(row) > 13 THEN P(row, 13) ELSE "?"
      cpu_val == IF Strip(cpu_str) # "" THEN Float(cpu_str) ELSE 0
      both == Len(row) > 10 /\ FloatOk(P(row, 10)) /\ FloatOk(P(row, 8))
              /\ FloatOk(P(row, 9))
  IN ("%CPU" :> cpu_val) @@ ("Command" :> cmd_str) @@ ("PID" :> P(row, 1))
     @@ ("CharIO" :> IF both THEN Float(P(row, 10)) ELSE 0)
     @@ ("Memory" :> IF both THEN Float(P(row, 8)) + Float(P(row, 9)) ELSE 0)

TopRec(row) ==
  LET cpu_str == IF Len(row) > 3 THEN P(row, 3) ELSE "0"
      cmd_str == IF Len(row) > 13 THEN P(row, 13) ELSE "?"
      cpu_val == IF Strip(cpu_str) # "" THEN Float(cpu_str) ELSE 0
      chario_val == IF Len(row) > 10 /\ FloatOk(P(row, 10))
                    THEN Float(P(row, 10)) ELSE 0
      mem_usage_val == IF Len(row) > 9 /\ FloatOk(P(row, 8)) /\ FloatOk(P(row, 9))
                       THEN Float(P(row, 8)) + Float(P(row, 9)) ELSE 0
  IN ("%CPU" :> cpu_val) @@ ("Command" :> cmd_str) @@ ("PID" :> P(row, 1))
     @@ ("CharIO" :> chario_val) @@ ("Memory" :> mem_usage_val)

\* Mutant: the tags of the samples are kept in sorted order.
ParseTop_Sorted(row) ==
  /\ ReadLine(row)
  /\ IF TopAccepted(row)
     THEN LET tag == P(row, 2)
              old == IF tag \in DOMAIN top_data_by_tag
                     THEN top_data_by_tag[tag] ELSE << >>
          IN /\ top_data_by_tag' = Put(top_data_by_tag, tag, Append(old, TopRec(row)))
             /\ top_order' = Sorted(DOMAIN top_data_by_tag \cup {tag})
     ELSE UNCHANGED <<top_data_by_tag, top_order>>
  /\ UNCHANGED <<zzzz_map, zzzz_order, node, fallback_date, header_parsed,
                 header, data_by_tag, cpu_use_data_by_tag>>

\* Mutant: a sample is kept only if its tag has a timestamp when its row
\* is read.
ParseTop_NeedsStamp(row) ==
  /\ ReadLine(row)
  /\ IF TopAccepted(row) /\ P(row, 2) \in DOMAIN zzzz_map
     THEN LET tag == P(row, 2)
              old == IF tag \in DOMAIN top_data_by_tag
                     THEN top_data_by_tag[tag] ELSE << >>
          IN /\ top_data_by_tag' = Put(top_data_by_tag, tag, Append(old, TopRec(row)))
             /\ top_order' = IF tag \in DOMAIN top_data_by_tag
                             THEN top_order
                             ELSE Append(top_order, tag)
     ELSE UNCHANGED <<top_data_by_tag, top_order>>
  /\ UNCHANGED <<zzzz_map, zzzz_order, node, fallback_date, header_parsed,
                 header, data_by_tag, cpu_use_data_by_tag>>

ParseTop(row) ==
  /\ ReadLine(row)
  /\ IF TopAccepted(row)
     THEN LET tag == P(row, 2)
              old == IF tag \in DOMAIN top_data_by_tag
                     THEN top_data_by_tag[tag] ELSE << >>
          IN /\ top_data_by_tag' = Put(top_data_by_tag, tag, Append(old, TopRec(row)))
             /\ top_order' = IF tag \in DOMAIN top_data_by_tag
                             THEN top_order
                             ELSE Append(top_order, tag)
     ELSE UNCHANGED <<top_data_by_tag, top_order>>
  /\ UNCHANGED <<zzzz_map, zzzz_order, node, fallback_date, header_parsed,
                 header, data_by_tag, cpu_use_data_by_tag>>

\* Mutant: the accumulator entry is overwritten by the row.
CoreAdd_Overwrite(cores, cpu_number, user_val, sys_val) ==
  Put(cores, cpu_number,
      [user_sum |-> user_val, sys_sum |-> sys_val, count |-> 1])

\* The accumulator entry of one core after one more accepted row,
\* lines 167-171.
CoreAdd(cores, cpu_number, user_val, sys_val) ==
  LET old == IF cpu_number \in DOMAIN cores
             THEN cores[cpu_number]
             ELSE [user_sum |-> 0, sys_sum |-> 0, count |-> 0]
  IN Put(cores, cpu_number,
         [user_sum |-> old.user_sum + user_val,
          sys_sum  |-> old.sys_sum + sys_val,
          count    |-> old.count + 1])

\* Mutant: CPUnn without the `if total > 0.05` test.
CoreStep_NoThreshold(acc, row) ==
  IF IsCoreKey(P(row, 0)) /\ Tagged(row) /\ FieldOk(row, 2) /\ FieldOk(row, 3)
  THEN LET tag == P(row, 1)
           cpu_number == Text(SubSeq(Chars(P(row, 0)), 4, Len(Chars(P(row, 0)))))
           cores == IF tag \in DOMAIN acc THEN acc[tag] ELSE EmptyDict
       IN Put(acc, tag, CoreAdd(cores, cpu_number, FieldVal(row, 2), FieldVal(row, 3)))
  ELSE acc

\* Mutant: the entry of the row's tag and core is made before the
\* `if total > 0.05` test.
CoreStep_EntryFirst(acc, row) ==
  IF IsCoreKey(P(row, 0)) /\ Tagged(row) /\ FieldOk(row, 2) /\ FieldOk(row, 3)
  THEN LET tag == P(row, 1)
           cpu_number == Text(SubSeq(Chars(P(row, 0)), 4, Len(Chars(P(row, 0)))))
           cores == IF tag \in DOMAIN acc THEN acc[tag] ELSE EmptyDict
       IN IF FieldVal(row, 2) + FieldVal(row, 3) > 50
          THEN Put(acc, tag,
                   CoreAdd(cores, cpu_number, FieldVal(row, 2), FieldVal(row, 3)))
          ELSE Put(acc, tag,
                   IF cpu_number \in DOMAIN cores THEN cores
                   ELSE Put(cores, cpu_number,
                            [user_sum |-> 0, sys_sum |-> 0, count |-> 0]))
  ELSE acc

\* CPUnn, lines 157-174: a row counts when its own user + sys exceeds 0.05.
CoreStep(acc, row) ==
  IF IsCoreKey(P(row, 0)) /\ Tagged(row) /\ FieldOk(row, 2) /\ FieldOk(row, 3)
     /\ FieldVal(row, 2) + FieldVal(row, 3) > 50
  THEN LET tag == P(row, 1)
           cpu_number == Text(SubSeq(Chars(P(row, 0)), 4, Len(Chars(P(row, 0)))))
           cores == IF tag \in DOMAIN acc THEN acc[tag] ELSE EmptyDict
       IN Put(acc, tag, CoreAdd(cores, cpu_number, FieldVal(row, 2), FieldVal(row, 3)))
  ELSE acc

ParseCore(row) ==
  /\ ReadLine(row)
  /\ cpu_use_data_by_tag' = CoreStep(cpu_use_data_by_tag, row)
  /\ UNCHANGED <<zzzz_map, zzzz_order, node, fallback_date, header_parsed,
                 header, data_by_tag, top_data_by_tag, top_order>>

-----------------------------------------------------------------------------
(* The passes of process_file                                              *)

\* The suffix a fibre-channel key gives its record keys, and the section
\* it is merged into.
FcSuffix(key) ==
  CASE key = "FCREAD"    -> "-read"
    [] key = "FCWRITE"   -> "-write"
    [] key = "FCXFERIN"  -> "-in"
    [] key = "FCXFEROUT" -> "-out"

FcName(key) == IF key \in {"FCREAD", "FCWRITE"} THEN "fc" ELSE "fcxfer"

\* for i, iface in enumerate(hdr): rec[f"{iface}{suffix}"] = val
FcValues(hdr, suffix, vals) ==
  LET d == Decode(hdr, vals)
  IN [k \in {c \o suffix : c \in DOMAIN d} |->
        d[CHOOSE c \in DOMAIN d : c \o suffix = k]]

\* Mutant: the header is kept once it is captured, as in the sections of
\* parse_nmon_file.
FcHeaderStep_Frozen(hdr, row) ==
  IF hdr = << >> /\ Len(row) > 2 /\ ~StartsWithT(P(row, 1))
  THEN From(row, 2) ELSE hdr

\* FCREAD / FCWRITE, lines 2820-2859, and FCXFERIN / FCXFEROUT, lines
\* 2888-2921: every non-tagged row replaces the header.
FcHeaderStep(hdr, row) ==
  IF Len(row) > 2 /\ ~StartsWithT(P(row, 1)) THEN From(row, 2) ELSE hdr

FcDataStep(key, hdr, recs, row) ==
  IF Len(row) > 2 /\ StartsWithT(P(row, 1)) /\ hdr # << >>
  THEN LET tag == P(row, 1)
           old == IF tag \in DOMAIN recs THEN recs[tag] ELSE EmptyDict
       IN Put(recs, tag, Update(old, FcValues(hdr, FcSuffix(key), NumericVals(row))))
  ELSE recs

ParseFc(row) ==
  LET key == P(row, 0)
  IN /\ ReadLine(row)
     /\ header' = [header EXCEPT ![key] = FcHeaderStep(@, row)]
     /\ data_by_tag' =
          [data_by_tag EXCEPT ![FcName(key)] = FcDataStep(key, header[key], @, row)]
     /\ UNCHANGED <<zzzz_map, zzzz_order, node, fallback_date, header_parsed,
                    top_data_by_tag, top_order, cpu_use_data_by_tag>>

\* NETSIZE, lines 2861-2883.
NetsizeStep(recs, row) ==
  IF Len(row) > 2 /\ StartsWithT(P(row, 1)) /\ Len(NumericVals(row)) >= 4
  THEN LET tag == P(row, 1)
           v   == NumericVals(row)
           old == IF tag \in DOMAIN recs THEN recs[tag] ELSE EmptyDict
       IN Put(recs, tag,
              Update(old, ("en2-readsize" :> v[1]) @@ ("lo0-readsize" :> v[2])
                          @@ ("en2-writesize" :> v[3]) @@ ("lo0-writesize" :> v[4])))
  ELSE recs

ParseNetsize(row) ==
  /\ ReadLine(row)
  /\ data_by_tag' = [data_by_tag EXCEPT !["netsize"] = NetsizeStep(@, row)]
  /\ UNCHANGED OnlyData

-----------------------------------------------------------------------------
(* Document assembly                                                       *)

\* The stem of the input file's name (line 121), the node identifier of a
\* file without a NodeName row.
BaseName == "capture"

\* zzzz_map.get(tag)
GetTimestamp(tag) == IF tag \in DOMAIN zzzz_map THEN zzzz_map[tag] ELSE NoneStr

\* all_tags of build_all_docs, lines 697-715.
AllTags ==
  UNION {DOMAIN data_by_tag[s] : s \in BaseSections} \cup DOMAIN zzzz_map

\* The document build_all_docs builds for a tag, lines 721-758.
BaseDoc(tag) ==
  [k \in {"@timestamp"} \cup {s \in BaseSections : tag \in DOMAIN data_by_tag[s]} |->
     IF k = "@timestamp" THEN GetTimestamp(tag) ELSE data_by_tag[k][tag]]

\* Mutant: build_all_docs without the `if not dt: continue` test.
HasTimestamp_Always(tag) == TRUE

\* `if not dt: continue`, lines 718-720.
HasTimestamp(tag) == Truthy(GetTimestamp(tag))

\* Mutant: build_all_docs without the `len(doc) > 1` test.
HasSection_Always(doc) == TRUE

\* `if len(doc) > 1`, line 760.
HasSection(doc) == Cardinality(DOMAIN doc) > 1

\* Mutant: the tags in capture order (iterating the dicts, no sorted()).
TagOrder_Capture(tags) ==
  SelectSeq(zzzz_order, LAMBDA t : t \in tags)
  \o Sorted(tags \ Range(zzzz_order))

\* The order build_all_docs visits the tags in, line 717.
TagOrder(tags) == Sorted(tags)

DocKept(tag) == HasTimestamp(tag) /\ HasSection(BaseDoc(tag))

\* The tags of the documents build_all_docs returns, in their order.
BuiltTags == SelectSeq(TagOrder(AllTags), DocKept)

\* The tag the loop of process_file finds for a document: the first key of
\* zzzz_map, in insertion order, whose timestamp equals the document's
\* (lines 2943-2948).
TheTag(tag_time) ==
  LET hits == {i \in DOMAIN zzzz_order : zzzz_map[zzzz_order[i]] = tag_time}
  IN IF hits = {} THEN NoneStr
     ELSE zzzz_order[CHOOSE i \in hits : \A j \in hits : i <= j]

\* The cpu_use entry of a document, lines 2980-2982.
CpuUse(cores) ==
  [cpu \in DOMAIN cores |->
     [user |-> cores[cpu].user_sum \div cores[cpu].count,
      sys  |-> cores[cpu].sys_sum \div cores[cpu].count]]

\* One pass of the loop of process_file over a document, lines 2942-2982.
Enriched(d) ==
  LET the_tag == TheTag(d["@timestamp"])
      extra == IF Truthy(the_tag)
               THEN {s \in EnrichSections : the_tag \in DOMAIN data_by_tag[s]}
                    \cup (IF the_tag \in DOMAIN cpu_use_data_by_tag
                          THEN {"cpu_use"} ELSE {})
               ELSE {}
  IN [k \in (DOMAIN d) \cup extra |->
        IF k \in extra
        THEN IF k = "cpu_use" THEN CpuUse(cpu_use_data_by_tag[the_tag])
             ELSE data_by_tag[k][the_tag]
        ELSE d[k]]

\* all_docs after build_all_docs and the loop.
AllDocs == [i \in DOMAIN BuiltTags |-> Enriched(BaseDoc(BuiltTags[i]))]

\* The records build_top_docs makes of one tag's list, lines 771-774.
TopDocsOf(tag) ==
  [i \in DOMAIN top_data_by_tag[tag] |->
     Update(("@timestamp" :> GetTimestamp(tag)), top_data_by_tag[tag][i])]

\* Mutant: build_top_docs without `if not dt: continue`.
TopKept_Always(tag) == TRUE

\* `if not dt: continue`, lines 768-770.
TopKept(tag) == Truthy(GetTimestamp(tag))

\* build_top_docs, lines 765-775: the tags in insertion order, each with
\* one record per sample.
RECURSIVE TopDocs(_)
TopDocs(tags) ==
  IF tags = << >> THEN << >>
  ELSE (IF TopKept(Head(tags)) THEN TopDocsOf(Head(tags)) ELSE << >>)
       \o TopDocs(Tail(tags))

RECURSIVE TopDocTags(_)
TopDocTags(tags) ==
  IF tags = << >> THEN << >>
  ELSE (IF TopKept(Head(tags))
        THEN [i \in DOMAIN top_data_by_tag[Head(tags)] |-> Head(tags)]
        ELSE << >>)
       \o TopDocTags(Tail(tags))

\* rec["count"] is 0 for a core of a document's tag: the division of lines
\* 2980-2982 raises ZeroDivisionError, which nothing catches.
ZeroCount ==
  \E i \in DOMAIN BuiltTags :
    LET the_tag == TheTag(GetTimestamp(BuiltTags[i]))
    IN /\ the_tag \in DOMAIN cpu_use_data_by_tag
       /\ \E cpu \in DOMAIN cpu_use_data_by_tag[the_tag] :
            cpu_use_data_by_tag[the_tag][cpu].count = 0

\* Mutant: build_top_docs takes the samples out of the accumulator.
Finish_Draining ==
  /\ pc = "scan"
  /\ (phase = "both" /\ turn = 1) \/ phase = "moved" => nlines = Len(file)
  /\ pc' = IF ZeroCount THEN "error" ELSE "done"
  /\ parts' = << >>
  /\ node_out' = IF ZeroCount THEN node_out
                 ELSE IF Truthy(node) THEN node ELSE BaseName
  /\ all_docs' = IF ZeroCount THEN all_docs ELSE AllDocs
  /\ all_docs_tag' = IF ZeroCount THEN all_docs_tag ELSE BuiltTags
  /\ top_docs' = IF ZeroCount THEN top_docs ELSE TopDocs(top_order)
  /\ top_docs_tag' = IF ZeroCount THEN top_docs_tag ELSE TopDocTags(top_order)
  /\ top_data_by_tag' = [t \in DOMAIN top_data_by_tag |-> << >>]
  /\ UNCHANGED <<nlines, zzzz_map, zzzz_order, node, fallback_date,
                 header_parsed, header, data_by_tag, top_order,
                 cpu_use_data_by_tag>>
  /\ first' = IF phase = "first" THEN Append(first, Locals) ELSE first
  /\ UNCHANGED <<phase, file, other, turn, moved, mainvars>>

\* End of input: parse_nmon_file returns (lines 651-683) and process_file
\* assembles and returns (lines 2923-2998).
Finish ==
  /\ pc = "scan"
  /\ (phase = "both" /\ turn = 1) \/ phase = "moved" => nlines = Len(file)
  /\ pc' = IF ZeroCount THEN "error" ELSE "done"
  /\ parts' = << >>
  /\ node_out' = IF ZeroCount THEN node_out
                 ELSE IF Truthy(node) THEN node ELSE BaseName
  /\ all_docs' = IF ZeroCount THEN all_docs ELSE AllDocs
  /\ all_docs_tag' = IF ZeroCount THEN all_docs_tag ELSE BuiltTags
  /\ top_docs' = IF ZeroCount THEN top_docs ELSE TopDocs(top_order)
  /\ top_docs_tag' = IF ZeroCount THEN top_docs_tag ELSE TopDocTags(top_order)
  /\ UNCHANGED <<nlines, zzzz_map, zzzz_order, node, fallback_date,
                 header_parsed, header, data_by_tag, top_data_by_tag,
                 top_order, cpu_use_data_by_tag>>
  /\ first' = IF phase = "first" THEN Append(first, Locals) ELSE first
  /\ UNCHANGED <<phase, file, other, turn, moved, mainvars>>

-----------------------------------------------------------------------------
(* Two calls of process_file                                               *)

\* The call whose local variables are l runs next.
Enter(l) ==
  /\ pc' = l.pc
  /\ nlines' = l.nlines
  /\ parts' = l.parts
  /\ zzzz_map' = l.zzzz_map
  /\ zzzz_order' = l.zzzz_order
  /\ node' = l.node
  /\ fallback_date' = l.fallback_date
  /\ header_parsed' = l.header_parsed
  /\ header' = l.header
  /\ data_by_tag' = l.data_by_tag
  /\ top_data_by_tag' = l.top_data_by_tag
  /\ top_order' = l.top_order
  /\ cpu_use_data_by_tag' = l.cpu_use_data_by_tag
  /\ all_docs' = l.all_docs
  /\ all_docs_tag' = l.all_docs_tag
  /\ top_docs' = l.top_docs
  /\ top_docs_tag' = l.top_docs_tag
  /\ node_out' = l.node_out

\* How a call ended and what it returned: line 3000, or the exception.
Result(l) == <<l.pc, l.node_out, l.all_docs, l.top_docs>>

\* process_file has returned for a file and is called twice more: call 1
\* on the same file, call 2 on another file.  Every variable of
\* parse_nmon_file and process_file is a local, assigned at lines 39-123
\* and 2817-2887 of each call.
Again ==
  /\ phase = "first"
  /\ pc # "scan"
  /\ phase' = "both"
  /\ first' = Append(first, Locals)
  /\ turn' = 1
  /\ other' = Fresh
  /\ Enter(Fresh)
  /\ UNCHANGED <<file, moved>>
  /\ UNCHANGED mainvars

\* process_file has returned for a file and is called on a file with the
\* same lines, the timestamp rows moved to other places among them.
Move ==
  /\ phase = "log"
  /\ pc # "scan"
  /\ phase' = "moved"
  /\ other' = Locals
  /\ Enter(Fresh)
  /\ moved' = << >>
  /\ UNCHANGED <<file, first, turn>>
  /\ UNCHANGED mainvars

\* Mutant: the fallback date and the captured headers are shared by the
\* two calls.
Switch_Shared ==
  /\ phase = "both"
  /\ turn' = 3 - turn
  /\ other' = Locals
  /\ Enter([other EXCEPT !.fallback_date = fallback_date,
                         !.header_parsed = header_parsed,
                         !.header = header])
  /\ UNCHANGED <<phase, file, first, moved>>
  /\ UNCHANGED mainvars

\* The two calls run in two worker processes of the pool (line 3023), or
\* one after the other in one worker: between two lines of one call the
\* other call may run.  Each call keeps its own local variables.
Switch ==
  /\ phase = "both"
  /\ turn' = 3 - turn
  /\ other' = Locals
  /\ Enter(other)
  /\ UNCHANGED <<phase, file, first, moved>>
  /\ UNCHANGED mainvars

-----------------------------------------------------------------------------
(* main: the pool of tasks and the merge by node identifier                *)

\* What process_file may return for a file (line 3000): the node
\* identifier, the documents and the process samples.  main looks at the
\* identifier only; documents and samples are named.
TaskResults ==
  {<<"host1", <<"d1", "d2">>, <<"p1">>>>,
   <<"host1", <<"d3">>, << >>>>,
   <<"host2", <<"d4">>, <<"p2">>>>}

\* A task that has returned nothing.
NoResult == <<NoneStr, << >>, << >>>>

\* The pool hands the next file of `tasks` to an idle worker (line 3024).
\* With at most four files per worker, starmap sends them one by one.
Start(f) ==
  /\ mpc = "pool"
  /\ task[f] = "queued"
  /\ \A g \in 1..(f - 1) : task[g] # "queued"
  /\ Cardinality({g \in DOMAIN task : task[g] = "running"}) < Procs
  /\ task' = [task EXCEPT ![f] = "running"]
  /\ UNCHANGED <<mpc, task_out, finished, merged, lpar_data_map, top_data_map>>
  /\ UNCHANGED <<locals, callvars>>

\* process_file returns in its worker (line 3000).
Return(f) ==
  /\ mpc = "pool"
  /\ task[f] = "running"
  /\ \E r \in TaskResults : task_out' = [task_out EXCEPT ![f] = r]
  /\ task' = [task EXCEPT ![f] = "returned"]
  /\ finished' = Append(finished, f)
  /\ UNCHANGED <<mpc, merged, lpar_data_map, top_data_map>>
  /\ UNCHANGED <<locals, callvars>>

\* open() raises in process_file (lines 125, 2820, 2863, 2888, 780): no
\* try block is around it, the exception leaves process_file.
Raise(f) ==
  /\ mpc = "pool"
  /\ task[f] = "running"
  /\ task' = [task EXCEPT ![f] = "raised"]
  /\ finished' = Append(finished, f)
  /\ UNCHANGED <<mpc, task_out, merged, lpar_data_map, top_data_map>>
  /\ UNCHANGED <<locals, callvars>>

\* Mutant: the results come in the order the tasks ended.
StarmapResults_AsCompleted == [i \in DOMAIN finished |-> task_out[finished[i]]]

\* The list starmap returns: the results in the order of `tasks`.
StarmapResults == [i \in DOMAIN task |-> task_out[i]]

\* starmap ends when every task has ended (line 3024): it returns the
\* results, or raises the exception of a task, which nothing in main
\* catches.
Join ==
  /\ mpc = "pool"
  /\ \A f \in DOMAIN task : task[f] \in {"returned", "raised"}
  /\ mpc' = IF \E f \in DOMAIN task : task[f] = "raised"
            THEN "raised" ELSE "merge"
  /\ UNCHANGED <<task, task_out, finished, merged, lpar_data_map, top_data_map>>
  /\ UNCHANGED <<locals, callvars>>

\* d[k].extend(v), after d[k] = [] for a new k.
Extend(d, k, v) == Put(d, k, (IF k \in DOMAIN d THEN d[k] ELSE << >>) \o v)

\* One turn of the merge loop, lines 3026-3032.
Merge ==
  /\ mpc = "merge"
  /\ merged < Len(StarmapResults)
  /\ LET r == StarmapResults[merged + 1]
     IN /\ lpar_data_map' = Extend(lpar_data_map, r[1], r[2])
        /\ top_data_map' = Extend(top_data_map, r[1], r[3])
  /\ merged' = merged + 1
  /\ UNCHANGED <<mpc, task, task_out, finished>>
  /\ UNCHANGED <<locals, callvars>>

\* generate_html_page is called with the two maps, lines 3034-3036.
Html ==
  /\ mpc = "merge"
  /\ merged = Len(StarmapResults)
  /\ mpc' = "done"
  /\ UNCHANGED <<task, task_out, finished, merged, lpar_data_map, top_data_map>>
  /\ UNCHANGED <<locals, callvars>>

-----------------------------------------------------------------------------
(* The lines fed to the parser                                             *)

Tags == {"T10", "T2"}

ZzzzRows ==
  {<<"ZZZZ", t, tm, "01-JAN-2025">> : t \in Tags, tm \in {"00:01", "00:02"}}

AaaRows ==
  {<<"AAA", "NodeName", "host1">>, <<"AAA", "NodeName", "">>,
   <<"AAA", "date", "02-feb-2025">>, <<"AAA", "date">>,
   <<"AAA", "progname", "nmon">>}

\* The fields after the tag of a fixed-schema row: two that decode, one
\* with text that is no number in parts[3], one with it in parts[4], one
\* that stops after parts[2].
FixedFields(key) ==
  {<<"5", "7", "", "5", " 7", "5">>,
   <<"5", "x", "7", "5", "7", "5">>,
   <<"5">>}
  \cup (IF key = "PAGE" THEN {<<"7", "5", "5", "5", "-3", "7">>} ELSE {})
  \cup (IF key = "PROC" THEN {<<"5", "7", "5", "5", "7", "5", "7">>} ELSE {})
  \cup (IF key = "MEM"
        THEN {<<"5", "7", "x", "5", "7", "5">>, <<"30", "10">>} ELSE {})

FixedRows(key) == {<<key, t>> \o f : t \in Tags, f \in FixedFields(key)}

\* TOP rows: key, PID, tag, %CPU, ..., parts[8] + parts[9] (memory),
\* parts[10] (char I/O), ..., parts[13] (command).
TopRows ==
  {<<"TOP", "101", t, "5", "", "", "", "", "5", "7", "5", "", "", "ksh">> :
      t \in Tags}
  \cup {<<"TOP", "102", "T2", "x", "", "", "", "", "5", "7", "5", "", "", "ksh">>,
        <<"TOP", "103", "T2", "7", "", "", "", "", "x", "7", "x">>,
        <<"TOP", "104", "T10">>,
        <<"TOP", "105", "T2", "", "", "", "", "", "x", "7", "5">>,
        <<"TOP", "106", "T2", "7", "", "", "", "", "5", "7", "x">>,
        <<"TOP", "T2", "Disk", "5">>}

CoreRows ==
  {<<k, t, u, "0.02">> : k \in {"CPU01", "CPU02"}, t \in Tags,
                         u \in {"0.02", "0.04", "0.2", "x"}}
  \cup {<<"CPU01", t>> \o v : t \in Tags,
          v \in {<<"0.04", "0.01">>, <<"", "0.2">>, <<"0.2">>}}

\* Two consecutive rows of core 01 under one tag: 0.02, 0.01 and then
\* 0.10, 0.20.
PairFirst(t)  == <<"CPU01", t, "0.02", "0.01">>
PairSecond(t) == <<"CPU01", t, "0.10", "0.20">>

\* What follows the section key in a row of a discovered-schema section:
\* header rows (a descriptor, then column names), and data rows (a tag,
\* then values).
HeaderTails ==
  {<<"Disk", "a", "b">>, <<"Disk", "b", "b">>, <<"Disk">>,
   <<"File I/O", "b", "a">>, <<"T File I/O", "a">>}

DataTails ==
  {<<"T10">>, <<"T10", "7", "x", "5">>, <<"T2", "5">>, <<"T2", " 7", "">>}

DiscTails == HeaderTails \cup DataTails

DiscRows(keys) == {<<k>> \o tail : k \in keys, tail \in DiscTails}

NetsizeRows ==
  {<<"NETSIZE", "Disk", "a", "b">>}
  \cup {<<"NETSIZE", t>> \o v : t \in Tags,
          v \in {<<"5", "7", "", "x">>, <<"7", "5", "5", "5", "7">>, <<"5">>}}

\* Timestamp rows whose date passes the pattern only once upper-cased, or
\* fails it and has a blank to trim.
DateRows ==
  {<<"ZZZZ", t, tm, d>> : t \in Tags, tm \in {"00:01", "00:02"},
                          d \in {"02-feb-2025", " 1-JAN-25"}}

\* Metadata rows: node names and fallback dates, empty values included.
MetaRows ==
  {<<"AAA", "NodeName", "host1">>, <<"AAA", "NodeName", "">>,
   <<"AAA", "date", "01-JAN-2025">>, <<"AAA", "date", "1-JAN-25">>,
   <<"AAA", "date", "">>}

\* The lines of a file that is parsed twice: a timestamp row whose date
\* fails the pattern, a CPU_ALL row, a FILE data row and a process sample.
\* TOP rows that stop before the command field (parts[13]), beside one
\* that carries it: three, four and ten fields, one of four fields whose
\* %CPU is no number, and one of two fields.
ShortTopRows ==
  {<<"TOP", "104", "T10">>,
   <<"TOP", "101", "T2", "5">>,
   <<"TOP", "102", "T2", "x">>,
   <<"TOP", "103", "T2", "7", "", "", "", "", "5", "7">>,
   <<"TOP", "105", "T10", "5", "", "", "", "", "5", "7", "5", "", "", "ksh">>,
   <<"TOP", "T2">>}

\* A timestamp row, a CPU_ALL row and per-core rows of one tag: user + sys
\* above the threshold (0.22, 0.06, 0.2 with a blank user%), below it
\* (0.04), at it (0.05), a user% that is no number, and a row that stops
\* after user%.
CountRows ==
  {<<"ZZZZ", "T2", "00:01", "01-JAN-2025">>,
   <<"CPU_ALL", "T2", "5", "7", "", "5">>,
   <<"CPU01", "T2", "0.2", "0.02">>,
   <<"CPU01", "T2", "0.04", "0.02">>,
   <<"CPU01", "T2", "0.02", "0.02">>,
   <<"CPU02", "T2", "0.04", "0.01">>,
   <<"CPU02", "T2", "", "0.2">>,
   <<"CPU01", "T2", "x", "0.02">>,
   <<"CPU02", "T2", "0.2">>}

\* Rows of one tag in two fixed-schema sections and one discovered-schema
\* section: rows that decode, rows with a field that is no number, rows
\* that stop too early, and a header row.
LastRows ==
  {<<"CPU_ALL", "T2", "5", "7", "", "5">>,
   <<"CPU_ALL", "T2", "7", "5", "5", "5">>,
   <<"CPU_ALL", "T2", "5", "x", "7", "5">>,
   <<"CPU_ALL", "T2", "5">>,
   <<"PROC", "T2", "5", "7", "5", "5", "7", "5", "7", "5", "5", "7">>,
   <<"PROC", "T2", "7", "7", "5", "5", "7", "5">>,
   <<"PROC", "T2", "5", "7", "x", "5", "7", "5">>,
   <<"PROC", "T2", "5">>,
   <<"DISKREAD", "Disk", "a", "b">>,
   <<"DISKREAD", "T2", "5", "7">>,
   <<"DISKREAD", "T2", " 7", "">>,
   <<"DISKREAD", "T2">>}

\* A header row and a data row of three discovered-schema sections, and a
\* MEM row.
SectRows ==
  {<<k>> \o tail : k \in {"DISKREAD", "DISKWRITE", "SEA"},
                   tail \in {<<"Disk", "a", "b">>, <<"T2", "5", "7">>}}
  \cup {<<"MEM", "T2", "5", "7", "", "5", " 7", "5">>}

\* Rows of the fibre-channel sections: two header rows and a data row of
\* FCREAD, a header row and a data row of the three others.
FcLines ==
  {<<"FCREAD", "Disk", "a", "b">>, <<"FCREAD", "Disk", "b">>,
   <<"FCREAD", "T2", "5", "7">>,
   <<"FCWRITE", "Disk", "a", "b">>, <<"FCWRITE", "T2", "7", "5">>,
   <<"FCXFERIN", "Disk", "a">>, <<"FCXFERIN", "T2", "5">>,
   <<"FCXFEROUT", "Disk", "a">>, <<"FCXFEROUT", "T2", "7", "x">>}

\* A metadata 'date' row, a timestamp row of T2 whose date fails the
\* pattern and one whose date passes, a CPU_ALL row and a TOP row of T2.
MovedRows ==
  {<<"AAA", "date", "01-JAN-2025">>,
   <<"ZZZZ", "T2", "00:01", " 1-JAN-25">>,
   <<"ZZZZ", "T2", "00:02", "02-feb-2025">>,
   <<"CPU_ALL", "T2", "5", "7", "", "5">>,
   <<"TOP", "101", "T2", "5", "", "", "", "", "5", "7", "5", "", "", "ksh">>}

FirstRows ==
  {<<"ZZZZ", "T2", "00:01", " 1-JAN-25">>,
   <<"CPU_ALL", "T2", "5", "7", "", "5">>,
   <<"FILE", "T2", "5">>,
   <<"TOP", "101", "T2", "5", "", "", "", "", "5", "7", "5", "", "", "ksh">>}

\* The lines of the file parsed next to it: a fallback date, a node name,
\* a FILE header and a FILE data row.
OtherRows ==
  {<<"AAA", "date", "01-JAN-2025">>,
   <<"AAA", "NodeName", "host1">>,
   <<"FILE", "File I/O", "b", "a">>,
   <<"FILE", "T2", "5">>}

-----------------------------------------------------------------------------
(* Actions: one line of one kind is read and parsed                        *)

ZzzzRow    == \E row \in ZzzzRows : ParseZzzz(row)
AaaRow     == \E row \in AaaRows : ParseAaa(row)
DatedRow   == \E row \in DateRows : ParseZzzz(row)
MetaRow    == \E row \in MetaRows : ParseAaa(row)
CpuAllRow  == \E row \in FixedRows("CPU_ALL") : ParseFixed(row)
LparRow    == \E row \in FixedRows("LPAR") : ParseFixed(row)
ProcRow    == \E row \in FixedRows("PROC") : ParseFixed(row)
MemnewRow  == \E row \in FixedRows("MEMNEW") : ParseFixed(row)
MemRow     == \E row \in FixedRows("MEM") : ParseFixed(row)
MemuseRow  == \E row \in FixedRows("MEMUSE") : ParseFixed(row)
PageRow    == \E row \in FixedRows("PAGE") : ParseFixed(row)
TopRow     == \E row \in TopRows : ParseTop(row)
CoreRow    == \E row \in CoreRows : ParseCore(row)
ShortRow   == \E row \in ShortTopRows : ParseTop(row)
FileRow    == \E row \in DiscRows({"FILE"}) : ParseDisc(row)
NetRow     == \E row \in DiscRows(NetKeys) : ParseDisc(row)
DiskVgRow  == \E row \in DiscRows(DiskVgKeys) : ParseDisc(row)
JfsSeaRow  == \E row \in DiscRows(JfsSeaKeys) : ParseDisc(row)
FcRow      == \E row \in DiscRows(FcKeys) : ParseFc(row)
NetsizeRow == \E row \in NetsizeRows : ParseNetsize(row)

\* The two lines of a pair are read one after the other.
CorePair ==
  \E t \in Tags :
    /\ pc = "scan"
    /\ nlines + 2 <= MaxLines
    /\ nlines' = nlines + 2
    /\ parts' = PairSecond(t)
    /\ cpu_use_data_by_tag' =
         CoreStep(CoreStep(cpu_use_data_by_tag, PairFirst(t)), PairSecond(t))
    /\ UNCHANGED <<pc, zzzz_map, zzzz_order, node, fallback_date,
                   header_parsed, header, data_by_tag, top_data_by_tag,
                   top_order, all_docs, all_docs_tag, top_docs, top_docs_tag,
                   node_out>>
    /\ UNCHANGED <<callvars, mainvars>>

\* Mutant: a line of an unknown key is taken for a timestamp row.
ParseOther_Stored(row) ==
  /\ ReadLine(row)
  /\ zzzz_map' = Put(zzzz_map, P(row, 0), "")
  /\ zzzz_order' = IF P(row, 0) \in DOMAIN zzzz_map THEN zzzz_order
                   ELSE Append(zzzz_order, P(row, 0))
  /\ UNCHANGED <<node, fallback_date, header_parsed, header, data_by_tag,
                 top_data_by_tag, top_order, cpu_use_data_by_tag>>

\* A line whose key no branch of any pass matches.
ParseOther(row) ==
  /\ ReadLine(row)
  /\ UNCHANGED <<zzzz_map, zzzz_order, node, fallback_date, header_parsed,
                 header, data_by_tag, top_data_by_tag, top_order,
                 cpu_use_data_by_tag>>

\* The chain of `if key == ...` tests of the four passes: a line goes to
\* the branch of its key.
ParseLine(row) ==
  LET key == P(row, 0)
  IN CASE key = "ZZZZ"        -> ParseZzzz(row)
       [] key = "AAA"         -> ParseAaa(row)
       [] key = "TOP"         -> ParseTop(row)
       [] key \in FixedKeys   -> ParseFixed(row)
       [] key \in DiscKeys    -> ParseDisc(row)
       [] key \in FcKeys      -> ParseFc(row)
       [] key = "NETSIZE"     -> ParseNetsize(row)
       [] IsCoreKey(key)      -> ParseCore(row)
       [] OTHER               -> ParseOther(row)

\* Lines of every kind that are short, long enough, or malformed, a line
\* of a key that no branch knows, and a blank line (its one field is
\* empty; line 129 skips it before any branch).
RunRows ==
  { <<"ZZZZ", "T2", "00:01">>, <<"ZZZZ", "T2", "00:01", "01-JAN-2025">>,
    <<"AAA", "x">>, <<"CPU_ALL">>, <<"CPU_ALL", "T2", "x">>,
    <<"PROC", "T2", "5">>, <<"TOP", "5">>, <<"TOP", "5", "T2">>,
    <<"CPU01", "T2">>, <<"CPU01", "T2", "5", "7">>, <<"FILE", "T2">>,
    <<"NET", "T2", "x">>, <<"VGSIZE", "T2">>, <<"FCREAD", "T2">>,
    <<"NETSIZE", "T2", "5">>, <<"x">>, <<"x", "T2", "5", "7">>, <<"">> }

AnyRow == \E row \in RunRows : ParseLine(row)

\* One more line of the file the running call parses.
TwiceRow ==
  \E row \in (IF phase = "both" /\ turn = 2 THEN OtherRows ELSE FirstRows) :
    ParseLine(row)

\* A group of consecutive lines, one per discovered-schema section key,
\* all with the same fields after the key.
TwinRows ==
  \E tail \in DiscTails :
    LET n(k) == DiscStep(k, Sec(k), <<k>> \o tail)
    IN /\ pc = "scan"
       /\ nlines < MaxGroups * Cardinality(DiscKeys)
       /\ nlines' = nlines + Cardinality(DiscKeys)
       /\ parts' = <<"SEAPACKET">> \o tail
       /\ header_parsed' = [k \in DiscKeys |-> n(k).parsed]
       /\ header' = [k \in DOMAIN header |->
                       IF k \in DiscKeys THEN n(k).cols ELSE header[k]]
       /\ data_by_tag' =
            [s \in Sections |->
               IF \E k \in DiscKeys : OutName(k) = s
               THEN n(CHOOSE k \in DiscKeys : OutName(k) = s).recs
               ELSE data_by_tag[s]]
       /\ UNCHANGED NotDisc
       /\ UNCHANGED <<pc, all_docs, all_docs_tag, top_docs, top_docs_tag, node_out>>
       /\ UNCHANGED <<callvars, mainvars>>

-----------------------------------------------------------------------------
(* Specifications                                                          *)

\* Files of timestamp rows, CPU_ALL and PAGE rows and process
\* samples, then the assembly.
Next == ZzzzRow \/ CpuAllRow \/ PageRow \/ TopRow \/ Finish
Spec == Init /\ [][Next]_vars

\* Files of fixed-schema rows.
NextFixed ==
  \/ CpuAllRow \/ LparRow \/ ProcRow \/ MemnewRow \/ MemRow \/ MemuseRow
  \/ PageRow \/ Finish
SpecFixed == Init /\ [][NextFixed]_vars

\* Files of timestamp rows and rows of discovered-schema sections.
NextDisc == ZzzzRow \/ FileRow \/ NetRow \/ DiskVgRow \/ JfsSeaRow \/ Finish
SpecDisc == Init /\ [][NextDisc]_vars

\* Files that give every discovered-schema section the same rows.
NextTwin == TwinRows
SpecTwin == Init /\ [][NextTwin]_vars

\* Files of every kind of line.
NextAll ==
  \/ ZzzzRow \/ AaaRow \/ CpuAllRow \/ LparRow \/ ProcRow \/ MemnewRow
  \/ MemRow \/ MemuseRow \/ PageRow \/ TopRow \/ CoreRow \/ FileRow \/ NetRow
  \/ DiskVgRow \/ JfsSeaRow \/ FcRow \/ NetsizeRow \/ Finish
SpecAll == Init /\ [][NextAll]_vars

\* Files of timestamp rows and MEM rows.
NextMem == ZzzzRow \/ MemRow \/ Finish
SpecMem == Init /\ [][NextMem]_vars

\* Files of timestamp rows, CPU_ALL rows and per-core CPU rows.
NextCore == ZzzzRow \/ CpuAllRow \/ CoreRow \/ CorePair \/ Finish
SpecCore == Init /\ [][NextCore]_vars

\* Files of metadata rows and timestamp rows with dates of every shape.
NextDate == DatedRow \/ MetaRow \/ Finish
SpecDate == Init /\ [][NextDate]_vars

\* Files of timestamp rows and TOP rows of every length.
NextTop == ZzzzRow \/ ShortRow \/ Finish
SpecTop == Init /\ [][NextTop]_vars

\* A file of per-core rows, its lines kept as they are read.
InitLog ==
  /\ InitLocals
  /\ phase = "log"
  /\ file = << >>
  /\ first = << >>
  /\ other = Fresh
  /\ turn = 1
  /\ moved = << >>
  /\ NoMain
CountRow == \E row \in CountRows : ParseLine(row)
NextCount == CountRow \/ Finish
SpecCount == InitLog /\ [][NextCount]_vars

\* Files of rows of one tag, accepted and rejected, in three sections.
LastRow == \E row \in LastRows : ParseLine(row)
NextLast == LastRow \/ Finish
SpecLast == Init /\ [][NextLast]_vars

\* Files with lines of several sections.
SectRow ==
  \E row \in SectRows :
    IF P(row, 0) \in DiscKeys THEN DiscLine(row) ELSE ParseFixed(row)
NextSect == SectRow \/ Finish
SpecSect == Init /\ [][NextSect]_vars

\* Files of fibre-channel rows.
FcLine == \E row \in FcLines : ParseFc(row)
NextFc == FcLine \/ Finish
SpecFc == Init /\ [][NextFc]_vars

\* A file is parsed, then a file with the same lines, the timestamp rows
\* at other places among them.
MovedRow == \E row \in MovedRows : ParseLine(row)
NextMoved == MovedRow \/ Finish \/ Move
SpecMoved == InitLog /\ [][NextMoved]_vars

\* A file is parsed, then parsed again while another file is parsed, the
\* lines of the two in any interleaving.
InitTwice ==
  /\ InitLocals
  /\ phase = "first"
  /\ file = << >>
  /\ first = << >>
  /\ other = Fresh
  /\ turn = 1
  /\ moved = << >>
  /\ NoMain
NextTwice == TwiceRow \/ Finish \/ Again \/ Switch
SpecTwice == InitTwice /\ [][NextTwice]_vars

\* main on a directory of capture files (there is at least one, line
\* 3017): one task per file.
InitMain ==
  /\ InitLocals
  /\ phase = "single"
  /\ file = << >>
  /\ first = << >>
  /\ other = Fresh
  /\ turn = 1
  /\ moved = << >>
  /\ mpc = "pool"
  /\ \E n \in 1..MaxFiles :
       /\ task = [f \in 1..n |-> "queued"]
       /\ task_out = [f \in 1..n |-> NoResult]
  /\ finished = << >>
  /\ merged = 0
  /\ lpar_data_map = EmptyDict
  /\ top_data_map = EmptyDict
NextMain ==
  \/ \E f \in DOMAIN task : Start(f) \/ Return(f) \/ Raise(f)
  \/ Join \/ Merge \/ Html
SpecMain == InitMain /\ [][NextMain]_vars

\* Files of short and malformed lines of every kind; the loop over the
\* lines and the assembly after it keep running.
NextRun == AnyRow \/ Finish
SpecRun == Init /\ [][NextRun]_vars /\ WF_vars(NextRun)

TypeOK ==
  /\ pc \in {"scan", "done", "error"}
  /\ nlines \in 0..(MaxGroups * Cardinality(DiscKeys) + MaxLines)
  /\ DOMAIN zzzz_map = Range(zzzz_order)
  /\ DOMAIN top_data_by_tag = Range(top_order)
  /\ Len(all_docs) = Len(all_docs_tag)
  /\ Len(top_docs) = Len(top_docs_tag)

-----------------------------------------------------------------------------
(* Claims about the assembly (Spec)                                        *)

\* The sections of a document: its keys besides the timestamp.
DocSections(d) == (DOMAIN d) \ {"@timestamp"}

\* Every tag some line of the file mentions.
SeenTags ==
  UNION {DOMAIN data_by_tag[s] : s \in Sections}
  \cup DOMAIN cpu_use_data_by_tag \cup DOMAIN top_data_by_tag
  \cup DOMAIN zzzz_map

\* The tag has a record in at least one section accumulator.
Populated(t) ==
  \/ \E s \in Sections : t \in DOMAIN data_by_tag[s]
  \/ t \in DOMAIN cpu_use_data_by_tag

\* C1: every merged document returned by process_file has a non-empty
\* timestamp and at least one section key besides the timestamp.
C1_DocHasTimestampAndSection ==
  pc = "done" =>
    \A i \in DOMAIN all_docs :
      /\ "@timestamp" \in DOMAIN all_docs[i]
      /\ all_docs[i]["@timestamp"] \notin {"", NoneStr}
      /\ DocSections(all_docs[i]) # {}

\* C1, witness: a document was returned, and a tag that has a timestamp
\* but no section data was left out.
C1_Witness ==
  /\ pc = "done"
  /\ Len(all_docs) >= 1
  /\ \E t \in DOMAIN zzzz_map : ~Populated(t) /\ t \notin Range(all_docs_tag)

\* C2, as claimed: exactly one merged document for each tag that has a
\* resolved timestamp and a record in at least one section of any kind
\* (paging, memory-use, ... included), and none for any other tag.
C2_OneDocPerPopulatedTag ==
  pc = "done" =>
    \A t \in SeenTags :
      Cardinality({i \in DOMAIN all_docs_tag : all_docs_tag[i] = t})
        = IF t \in DOMAIN zzzz_map /\ Populated(t) THEN 1 ELSE 0

\* C3, as claimed: in every returned document the timestamp and every
\* section entry are the records stored for the one tag the document was
\* built for.
C3_CorrelatedByTag ==
  pc = "done" =>
    \A i \in DOMAIN all_docs :
      LET t == all_docs_tag[i]
          d == all_docs[i]
      IN /\ d["@timestamp"] = zzzz_map[t]
         /\ \A s \in DocSections(d) :
              IF s = "cpu_use"
              THEN /\ t \in DOMAIN cpu_use_data_by_tag
                   /\ d[s] = CpuUse(cpu_use_data_by_tag[t])
              ELSE /\ t \in DOMAIN data_by_tag[s]
                   /\ d[s] = data_by_tag[s][t]

\* C4: a tag with section data or process samples but no timestamp yields
\* no merged document and no process-sample record.
C4_NoTimestampNoOutput ==
  pc = "done" =>
    \A t \in SeenTags \ DOMAIN zzzz_map :
      /\ t \notin Range(all_docs_tag)
      /\ t \notin Range(top_docs_tag)
      /\ \A i \in DOMAIN all_docs : TheTag(all_docs[i]["@timestamp"]) # t

\* C4, witness: a tag without timestamp has a CPU_ALL record and a process
\* sample, and the file still yields a document for another tag.
C4_Witness ==
  /\ pc = "done"
  /\ Len(all_docs) >= 1
  /\ \E t \in Tags :
       /\ t \notin DOMAIN zzzz_map
       /\ t \in DOMAIN data_by_tag["cpu_all"]
       /\ t \in DOMAIN top_data_by_tag

\* C5: the merged documents are in ascending lexical order of tag, with at
\* most one document per tag.
C5_SortedByTag ==
  pc = "done" =>
    \A i, j \in DOMAIN all_docs_tag :
      i < j => StrLess(all_docs_tag[i], all_docs_tag[j])

\* C5, witness: T2 was captured before T10 and has the earlier timestamp,
\* and the document of T10 comes first.
C5_Witness ==
  /\ pc = "done"
  /\ zzzz_order = <<"T2", "T10">>
  /\ zzzz_map["T2"] = "01-JAN-2025 00:01"
  /\ zzzz_map["T10"] = "01-JAN-2025 00:02"
  /\ all_docs_tag = <<"T10", "T2">>

-----------------------------------------------------------------------------
(* Claims about the discovered-schema sections                             *)

\* C6, as claimed (SpecDisc): a tagged data row that arrives while its
\* section is still AwaitingHeader leaves the section's tag map unchanged,
\* and a section that never left AwaitingHeader appears in no document.
C6_NoRecordBeforeHeader ==
  [][/\ \A k \in DiscKeys :
          (/\ parts' # << >>
           /\ P(parts', 0) = k
           /\ Len(parts') > 1
           /\ StartsWithT(P(parts', 1))
           /\ ~header_parsed[k])
          => data_by_tag'[OutName(k)] = data_by_tag[OutName(k)]
     /\ \A k \in DiscKeys :
          ~header_parsed'[k]
          => \A i \in DOMAIN all_docs' : OutName(k) \notin DOMAIN all_docs'[i]
    ]_vars

\* In SpecTwin the line just read stands for one line per section key, all
\* with the fields of `parts` after the key.
RowOf(k, p) == <<k>> \o Tail(p)

\* C7, as claimed: a non-tagged row with columns.
NonTaggedWithColumns(row) == Len(row) > 2 /\ ~StartsWithT(P(row, 1))

\* C7, as amended: for FILE the descriptor must contain "File I/O", and
\* may start with the tag marker.
HeaderRow(k, row) ==
  /\ Len(row) > 2
  /\ IF k = "FILE" THEN Contains(P(row, 1), "File I/O")
     ELSE ~StartsWithT(P(row, 1))

ValueAt(row, i) ==
  IF i + 2 <= Len(row) /\ FloatOk(row[i + 2]) THEN Float(row[i + 2]) ELSE 0

\* The last position of a column name in a header.
LastPos(cols, c) ==
  CHOOSE i \in DOMAIN cols :
    cols[i] = c /\ \A j \in DOMAIN cols : j > i => cols[j] # c

\* The tagged rows a Ready section decodes: NET, NETPACKET, DISK* and VG*
\* want at least one field after the tag.
Decoded(k, row) ==
  /\ StartsWithT(P(row, 1))
  /\ IF k \in NetKeys \cup DiskVgKeys THEN Len(row) > 2 ELSE Len(row) > 1

\* C8, as claimed (SpecTwin): in the Ready state every tagged data row is
\* stored for its tag with exactly the header's column names as keys, the
\* i-th column holding the i-th value after the tag (0.0 when missing,
\* malformed or empty).
C8_IthColumnIthValue ==
  [][parts' # << >> =>
       \A k \in DiscKeys :
         LET row  == RowOf(k, parts')
             tag  == P(row, 1)
             recs == data_by_tag'[OutName(k)]
         IN (header_parsed[k] /\ Len(row) > 1 /\ StartsWithT(tag))
            => /\ tag \in DOMAIN recs
               /\ DOMAIN recs[tag] = Range(header[k])
               /\ \A i \in DOMAIN header[k] :
                    recs[tag][header[k][i]] = ValueAt(row, i)
    ]_vars

\* C8, amended (SpecTwin): in the Ready state a tagged data row (for NET,
\* NETPACKET, DISK* and VG* one with at least one field after the tag;
\* otherwise the row changes nothing) is stored for its tag with exactly
\* the header's column names as keys, each name holding the value at the
\* last position of that name in the header (0.0 when that value is
\* missing, malformed or empty); values beyond the header are discarded.
C8_DecodedAgainstHeader ==
  [][parts' # << >> =>
       \A k \in DiscKeys :
         LET row  == RowOf(k, parts')
             tag  == P(row, 1)
             recs == data_by_tag'[OutName(k)]
         IN (header_parsed[k] /\ Len(row) > 1 /\ StartsWithT(tag))
            => IF Decoded(k, row)
               THEN /\ tag \in DOMAIN recs
                    /\ DOMAIN recs[tag] = Range(header[k])
                    /\ \A c \in Range(header[k]) :
                         recs[tag][c] = ValueAt(row, LastPos(header[k], c))
                    /\ \A t \in DOMAIN recs \ {tag} :
                         /\ t \in DOMAIN data_by_tag[OutName(k)]
                         /\ recs[t] = data_by_tag[OutName(k)][t]
               ELSE recs = data_by_tag[OutName(k)]
    ]_vars

\* C8, witness: with the header b, b captured, the row T10,7,x,5 was read
\* and every section holds b = 0.0 for T10 (the second value, malformed;
\* the third is discarded).
C8_Witness ==
  /\ parts = <<"SEAPACKET", "T10", "7", "x", "5">>
  /\ \A k \in DiscKeys \ {"FILE"} :
       /\ header[k] = <<"b", "b">>
       /\ "T10" \in DOMAIN data_by_tag[OutName(k)]
       /\ data_by_tag[OutName(k)]["T10"] = ("b" :> 0)

\* C9, as claimed (SpecTwin): fed the same rows, any two discovered-schema
\* sections hold the same header state, header and tag-to-record map.
C9_SameMachine == \A j, k \in DiscKeys : Sec(j) = Sec(k)

-----------------------------------------------------------------------------
(* Claims about the fixed-schema sections                                  *)

\* The row with every field that is missing or no number replaced by an
\* empty one (which decodes to 0.0).
Lenient(row) ==
  [i \in 1..12 |->
     IF i <= 2 THEN row[i]
     ELSE IF i <= Len(row) /\ FloatOk(row[i]) THEN row[i] ELSE ""]

\* C10, as claimed (SpecFixed): a fixed-schema row with a tag always
\* stores a record for the tag, each field decoded on its own: a field
\* that is no number is 0.0 and the others keep their values.
C10_NeverRejected ==
  [][\A key \in FixedKeys :
       (parts' # << >> /\ P(parts', 0) = key /\ Tagged(parts'))
       => LET tag  == P(parts', 1)
              recs == data_by_tag'[FixedName(key)]
          IN /\ tag \in DOMAIN recs
             /\ recs[tag] = FixedRec(key, Lenient(parts'))
    ]_vars

\* The section a key of parse_nmon_file stores its records in.
SectionOf(key) == IF key \in FixedKeys THEN FixedName(key) ELSE OutName(key)

\* A tagged row its section rejects: in a fixed-schema section a row with
\* a required field missing or a field that is neither empty nor a
\* number, in a discovered-schema section a row that stops too early.
Refused(key, row) ==
  IF key \in FixedKeys THEN ~FixedOk(key, row)
  ELSE Len(row) <= (IF key \in NetKeys \cup DiskVgKeys THEN 2 ELSE 1)

\* The names of a fixed-schema section's fields.
FieldNames(key) == DOMAIN FixedRec(key, <<key, "T2">> \o [i \in 1..10 |-> "5"])

OwnMaps(key) == IF key = "MEM" THEN {"mem", "mem_mb"} ELSE {SectionOf(key)}

\* C34 (SpecSect): a row of a section key changes no other section: the
\* header state (captured or not, and the column names) of every other
\* key and every tag map but the key's own (for MEM the mem and mem_mb
\* maps) are as before, a row of a fixed-schema section changes no header
\* state at all, and the timestamps, the node name, the fallback date,
\* the process samples and the per-core sums are as before.
C34_SectionsIndependent ==
  [][(parts' # << >> /\ P(parts', 0) \in FixedKeys \cup DiscKeys)
     => LET key == P(parts', 0)
        IN /\ \A k \in DOMAIN header_parsed \ {key} :
                header_parsed'[k] = header_parsed[k]
           /\ \A k \in DOMAIN header \ {key} : header'[k] = header[k]
           /\ key \in FixedKeys => header_parsed' = header_parsed /\ header' = header
           /\ \A s \in DOMAIN data_by_tag \ OwnMaps(key) :
                data_by_tag'[s] = data_by_tag[s]
           /\ UNCHANGED <<zzzz_map, zzzz_order, node, fallback_date,
                          top_data_by_tag, top_order, cpu_use_data_by_tag>>
    ]_vars

\* C34, witness: the header of DISKWRITE has just been captured; DISKREAD
\* keeps the record it had for T2, and SEA is still waiting for its header.
C34_Witness ==
  /\ parts = <<"DISKWRITE", "Disk", "a", "b">>
  /\ header_parsed["DISKWRITE"]
  /\ ~header_parsed["SEA"]
  /\ header_parsed["DISKREAD"]
  /\ "T2" \in DOMAIN data_by_tag["diskread"]
  /\ data_by_tag["diskread"]["T2"] = ("a" :> 5000) @@ ("b" :> 7000)
  /\ data_by_tag["diskwrite"] = EmptyDict

\* The record of a tag in a tag map, empty when the tag has none.
RecordOf(recs, tag) == IF tag \in DOMAIN recs THEN recs[tag] ELSE EmptyDict

\* C35 (SpecFc): in the FCREAD, FCWRITE, FCXFERIN and FCXFEROUT sections
\* every row with more than two fields and no tag makes its fields after
\* the descriptor the header of its key, whatever the header was; a tagged
\* row read while its key has no header changes nothing; a tagged row
\* read under a header sets, in the one record of its tag, the key of each
\* column with the suffix of its direction (-read, -write, -in, -out) to
\* the row's value for that column and keeps every other key of the
\* record, those of the other direction included.
C35_FcHeaderReplacedRecordsMerged ==
  [][(parts' # << >> /\ P(parts', 0) \in FcKeys)
     => LET row  == parts'
            key  == P(row, 0)
            hdr  == header[key]
            old  == data_by_tag[FcName(key)]
            new  == data_by_tag'[FcName(key)]
            vals == NumericVals(row)
            keys == {hdr[i] \o FcSuffix(key) : i \in DOMAIN hdr}
        IN /\ \A k \in DOMAIN header \ {key} : header'[k] = header[k]
           /\ \A s \in DOMAIN data_by_tag \ {FcName(key)} :
                data_by_tag'[s] = data_by_tag[s]
           /\ IF Len(row) > 2 /\ ~StartsWithT(P(row, 1))
              THEN header'[key] = From(row, 2) /\ new = old
              ELSE IF Len(row) > 2 /\ hdr # << >>
              THEN LET tag == P(row, 1)
                   IN /\ header'[key] = hdr
                      /\ DOMAIN new = DOMAIN old \cup {tag}
                      /\ \A t \in DOMAIN old \ {tag} : new[t] = old[t]
                      /\ DOMAIN new[tag] = DOMAIN RecordOf(old, tag) \cup keys
                      /\ \A k \in DOMAIN RecordOf(old, tag) \ keys :
                           new[tag][k] = old[tag][k]
                      /\ \A i \in DOMAIN hdr :
                           (\A j \in DOMAIN hdr : hdr[j] = hdr[i] => j <= i)
                           => new[tag][hdr[i] \o FcSuffix(key)] =
                                (IF i <= Len(vals) THEN vals[i] ELSE 0)
              ELSE header'[key] = hdr /\ new = old
    ]_vars

\* C35, witness: T2 has one fibre-channel record with the read values and
\* the write values of its two rows, the FCWRITE row read last.
C35_Witness ==
  /\ parts = <<"FCWRITE", "T2", "7", "5">>
  /\ "T2" \in DOMAIN data_by_tag["fc"]
  /\ data_by_tag["fc"]["T2"] =
       ("a-read" :> 5000) @@ ("b-read" :> 7000)
       @@ ("a-write" :> 7000) @@ ("b-write" :> 5000)

-----------------------------------------------------------------------------
(* Claims about whole runs and about the per-core CPU section              *)

\* C11 (SpecRun): whatever lines the file holds, no error leaves the
\* parser or the assembly, and the run reaches the end of the input and
\* returns.
C11_RunsToCompletion == [](pc # "error") /\ <>(pc = "done")

\* C11, witness: the run returned after reading lines of which none was
\* stored: short and malformed lines only.
C11_Witness ==
  /\ pc = "done"
  /\ nlines >= 3
  /\ zzzz_map = EmptyDict
  /\ \A s \in Sections : data_by_tag[s] = EmptyDict
  /\ top_data_by_tag = EmptyDict
  /\ cpu_use_data_by_tag = EmptyDict

\* The core id of a per-core key: the text after "CPU".
CoreId(key) == Text(SubSeq(Chars(key), 4, Len(Chars(key))))

\* The accumulator entry of a tag and core, zero when there is none.
CoreEntry(acc, tag, core) ==
  IF tag \in DOMAIN acc /\ core \in DOMAIN acc[tag]
  THEN acc[tag][core]
  ELSE [user_sum |-> 0, sys_sum |-> 0, count |-> 0]

\* The (tag, core) pairs an accumulator has entries for.
CorePairs(acc) ==
  UNION {{<<t, c>> : c \in DOMAIN acc[t]} : t \in DOMAIN acc}

\* C12 (SpecCore): a tagged per-core row whose user% and sys% decode is
\* accepted exactly when its own user% + sys% is above 0.05 (50
\* thousandths); an accepted row adds its user and sys to the sums of its
\* (tag, core) and one to the count and changes no other entry; any other
\* row leaves the sums alone; and the cpu_use of a returned document is,
\* per core, user_sum / count and sys_sum / count of a tag with the
\* document's timestamp.
C12_AcceptedRowsAccumulate ==
  /\ [][(nlines' = nlines + 1 /\ parts' # << >>) =>
          LET row  == parts'
              acc  == cpu_use_data_by_tag
              acc2 == cpu_use_data_by_tag'
              accepted ==
                /\ IsCoreKey(P(row, 0))
                /\ Len(row) > 3
                /\ StartsWithT(P(row, 1))
                /\ FieldOk(row, 2) /\ FieldOk(row, 3)
                /\ FieldVal(row, 2) + FieldVal(row, 3) > 50
          IN IF accepted
             THEN LET tag  == P(row, 1)
                      core == CoreId(P(row, 0))
                      old  == CoreEntry(acc, tag, core)
                  IN /\ CorePairs(acc2) = CorePairs(acc) \cup {<<tag, core>>}
                     /\ acc2[tag][core] =
                          [user_sum |-> old.user_sum + FieldVal(row, 2),
                           sys_sum  |-> old.sys_sum + FieldVal(row, 3),
                           count    |-> old.count + 1]
                     /\ \A p \in CorePairs(acc) \ {<<tag, core>>} :
                          acc2[p[1]][p[2]] = acc[p[1]][p[2]]
             ELSE acc2 = acc
       ]_vars
  /\ [](pc = "done" =>
          \A i \in DOMAIN all_docs :
            "cpu_use" \in DOMAIN all_docs[i] =>
              \E t \in DOMAIN cpu_use_data_by_tag :
                /\ GetTimestamp(t) = all_docs[i]["@timestamp"]
                /\ DOMAIN all_docs[i]["cpu_use"] = DOMAIN cpu_use_data_by_tag[t]
                /\ \A c \in DOMAIN cpu_use_data_by_tag[t] :
                     LET e == cpu_use_data_by_tag[t][c]
                     IN all_docs[i]["cpu_use"][c] =
                          [user |-> e.user_sum \div e.count,
                           sys  |-> e.sys_sum \div e.count])

\* C12, witness: core 01 of T2 has two accepted rows summed, and the
\* returned document of T2 carries their average.
C12_Witness ==
  /\ pc = "done"
  /\ "T2" \in DOMAIN cpu_use_data_by_tag
  /\ "01" \in DOMAIN cpu_use_data_by_tag["T2"]
  /\ cpu_use_data_by_tag["T2"]["01"] =
       [user_sum |-> 240, sys_sum |-> 40, count |-> 2]
  /\ \E i \in DOMAIN all_docs :
       /\ all_docs_tag[i] = "T2"
       /\ "cpu_use" \in DOMAIN all_docs[i]
       /\ all_docs[i]["cpu_use"]["01"] = [user |-> 120, sys |-> 20]

\* The pair of rows 0.02, 0.01 and 0.10, 0.20 of core 01 under tag t has
\* just been read, and they are the only rows of that tag and core.
PairGiven(t) ==
  /\ parts' = PairSecond(t)
  /\ nlines' = nlines + 2
  /\ <<t, "01">> \notin CorePairs(cpu_use_data_by_tag)

\* C13, as claimed (SpecCore): after the rows (0.02, 0.01) and
\* (0.10, 0.20) of core 01 under one tag, the finalized average of that
\* tag and core is user = 0.06, sys = 0.105 (60 and 105 thousandths).
C13_AverageOfBothRows ==
  [][\A t \in Tags :
       PairGiven(t) =>
         /\ <<t, "01">> \in CorePairs(cpu_use_data_by_tag')
         /\ CpuUse(cpu_use_data_by_tag'[t])["01"] = [user |-> 60, sys |-> 105]
    ]_vars

\* C13, amended (SpecCore): after the rows (0.02, 0.01) and (0.10, 0.20)
\* of core 01 under one tag, the first row, whose user + sys is 0.03, is
\* not accepted, and the finalized average of that tag and core is that of
\* the second row alone: user = 0.10, sys = 0.20.
C13_AverageOfAcceptedRow ==
  [][\A t \in Tags :
       PairGiven(t) =>
         /\ <<t, "01">> \in CorePairs(cpu_use_data_by_tag')
         /\ cpu_use_data_by_tag'[t]["01"].count = 1
         /\ CpuUse(cpu_use_data_by_tag'[t])["01"] = [user |-> 100, sys |-> 200]
    ]_vars

\* C13, witness: the pair has just been read under T2, and core 01 of T2
\* holds one row: 0.10, 0.20.
C13_Witness ==
  /\ parts = PairSecond("T2")
  /\ <<"T2", "01">> \in CorePairs(cpu_use_data_by_tag)
  /\ cpu_use_data_by_tag["T2"]["01"] =
       [user_sum |-> 100, sys_sum |-> 200, count |-> 1]

\* The places in `file` of the per-core rows accepted for a tag and core.
AcceptedFor(tag, core) ==
  {k \in DOMAIN file :
     LET row == file[k]
     IN /\ IsCoreKey(P(row, 0))
        /\ Len(row) > 3
        /\ StartsWithT(P(row, 1))
        /\ FieldOk(row, 2) /\ FieldOk(row, 3)
        /\ FieldVal(row, 2) + FieldVal(row, 3) > 50
        /\ P(row, 1) = tag
        /\ CoreId(P(row, 0)) = core}

\* The total of the field at position i over the lines at the places S.
RECURSIVE FileTotal(_, _)
FileTotal(S, i) ==
  IF S = {} THEN 0
  ELSE LET k == CHOOSE k \in S : TRUE
       IN FieldVal(file[k], i) + FileTotal(S \ {k}, i)

\* C32 (SpecCount): at every point of the scan and after it, each (tag,
\* core) entry of the per-core accumulator has a count of at least 1, its
\* count is the number of rows accepted so far for that tag and core and
\* its sums are the totals of their user% and sys%; no entry has count 0
\* when the averages are taken, and the call does not fail.
C32_CountAtLeastOne ==
  /\ \A p \in CorePairs(cpu_use_data_by_tag) :
       LET e == cpu_use_data_by_tag[p[1]][p[2]]
           S == AcceptedFor(p[1], p[2])
       IN /\ e.count >= 1
          /\ e.count = Cardinality(S)
          /\ e.user_sum = FileTotal(S, 2)
          /\ e.sys_sum = FileTotal(S, 3)
  /\ ~ZeroCount
  /\ pc # "error"

\* C32, witness: two rows of core 01 under T2 were accepted (0.2 + 0.02
\* and 0.04 + 0.02), the entry counts both, and the document of T2 was
\* returned with the averages, the division by the count done.
C32_Witness ==
  /\ pc = "done"
  /\ <<"T2", "01">> \in CorePairs(cpu_use_data_by_tag)
  /\ cpu_use_data_by_tag["T2"]["01"] =
       [user_sum |-> 240, sys_sum |-> 40, count |-> 2]
  /\ Len(all_docs) = 1
  /\ "cpu_use" \in DOMAIN all_docs[1]
  /\ all_docs[1]["cpu_use"]["01"] = [user |-> 120, sys |-> 20]

-----------------------------------------------------------------------------
(* Claims about the memory, paging and process-counter sections            *)

\* A MEM row with a tag has just been read.
MemRowRead == parts' # << >> /\ P(parts', 0) = "MEM" /\ Tagged(parts')

\* C14 (SpecMem): a MEM row whose two percent fields decode stores, for
\* its tag, Real_Used% = 100 - real-free% and Virtual_Used% = 100 -
\* virt-free% and nothing else; 30 and 10 give 70 and 90.
C14_UsedIsHundredMinusFree ==
  [][(MemRowRead /\ FieldOk(parts', 2) /\ FieldOk(parts', 3)) =>
       LET tag == P(parts', 1)
           mem == data_by_tag'["mem"]
       IN /\ tag \in DOMAIN mem
          /\ DOMAIN mem[tag] = {"Real_Used%", "Virtual_Used%"}
          /\ mem[tag]["Real_Used%"] + FieldVal(parts', 2) = 100000
          /\ mem[tag]["Virtual_Used%"] + FieldVal(parts', 3) = 100000
          /\ (P(parts', 2) = "30" /\ P(parts', 3) = "10")
               => /\ mem[tag]["Real_Used%"] = 70000
                  /\ mem[tag]["Virtual_Used%"] = 90000
    ]_vars

\* C14, witness: the row MEM,T2,30,10 has been read and T2 holds 70, 90.
C14_Witness ==
  /\ parts = <<"MEM", "T2", "30", "10">>
  /\ "T2" \in DOMAIN data_by_tag["mem"]
  /\ data_by_tag["mem"]["T2"] =
       ("Real_Used%" :> 70000) @@ ("Virtual_Used%" :> 90000)

\* C15, as claimed (SpecMem): the MB record of a MEM row is stored exactly
\* when the row's four MB fields decode, with used MB = total MB - free
\* MB for real and virtual, and the percent record exactly when its two
\* percent fields decode: neither group's failure touches the other record.
C15_MbIndependentOfPercent ==
  [][MemRowRead =>
       LET row == parts'
           tag == P(row, 1)
           mem == data_by_tag'["mem"]
           mb  == data_by_tag'["mem_mb"]
       IN /\ IF \A i \in 4..7 : FieldOk(row, i)
             THEN /\ tag \in DOMAIN mb
                  /\ mb[tag]["Real_Used_MB"] =
                       FieldVal(row, 6) - FieldVal(row, 4)
                  /\ mb[tag]["Virtual_Used_MB"] =
                       FieldVal(row, 7) - FieldVal(row, 5)
             ELSE mb = data_by_tag["mem_mb"]
          /\ IF FieldOk(row, 2) /\ FieldOk(row, 3)
             THEN /\ tag \in DOMAIN mem
                  /\ mem[tag]["Real_Used%"] = 100000 - FieldVal(row, 2)
                  /\ mem[tag]["Virtual_Used%"] = 100000 - FieldVal(row, 3)
             ELSE mem = data_by_tag["mem"]
    ]_vars

\* The absolute value.
Abs(x) == IF x < 0 THEN 0 - x ELSE x

\* C16 (Spec): every stored paging record has pgout <= 0 and pgsout <= 0;
\* a PAGE row that is stored gives its tag pgout = -|field 4|, pgsout =
\* -|field 6|, pgin = field 3 and pgsin = field 5; pgout = 5, pgsout = -3
\* give -5 and -3.
C16_PageOutNonPositive ==
  /\ [](\A t \in DOMAIN data_by_tag["page"] :
          /\ data_by_tag["page"][t]["pgout"] <= 0
          /\ data_by_tag["page"][t]["pgsout"] <= 0)
  /\ [][(/\ parts' # << >>
         /\ P(parts', 0) = "PAGE"
         /\ Tagged(parts')
         /\ \A i \in 3..6 : FieldOk(parts', i))
        => LET row  == parts'
               tag  == P(row, 1)
               page == data_by_tag'["page"]
           IN /\ tag \in DOMAIN page
              /\ page[tag] =
                   ("pgin" :> FieldVal(row, 3))
                   @@ ("pgout" :> (0 - Abs(FieldVal(row, 4))))
                   @@ ("pgsin" :> FieldVal(row, 5))
                   @@ ("pgsout" :> (0 - Abs(FieldVal(row, 6))))
       ]_vars

\* C16, witness: the row with pgin 5, pgout 5, pgsin 5, pgsout -3 has been
\* read under T2, which holds pgout = -5 and pgsout = -3.
C16_Witness ==
  /\ parts = <<"PAGE", "T2", "7", "5", "5", "5", "-3", "7">>
  /\ "T2" \in DOMAIN data_by_tag["page"]
  /\ data_by_tag["page"]["T2"] =
       ("pgin" :> 5000) @@ ("pgout" :> -5000) @@ ("pgsin" :> 5000)
       @@ ("pgsout" :> -3000)

\* The names of the PROC fields parts[2], ..., parts[11].
ProcNames ==
  <<"Runnable", "Swap-in", "pswitch", "Syscall", "Read", "Write", "fork",
    "exec", "sem", "msg">>

\* C17, as claimed (SpecFixed): a PROC row that is stored sets, in its
\* tag's record, the fields it carries (those at positions the row has)
\* and leaves every other field of the record as an earlier row stored it.
C17_ProcKeepsEarlierValues ==
  [][(/\ parts' # << >>
      /\ P(parts', 0) = "PROC"
      /\ Tagged(parts')
      /\ data_by_tag'["proc"] # data_by_tag["proc"])
     => LET row == parts'
            tag == P(row, 1)
            old == data_by_tag["proc"]
            new == data_by_tag'["proc"]
        IN \A j \in DOMAIN ProcNames :
             IF j + 1 < Len(row)
             THEN new[tag][ProcNames[j]] = OptVal(row, j + 1)
             ELSE tag \in DOMAIN old
                  => new[tag][ProcNames[j]] = old[tag][ProcNames[j]]
    ]_vars

-----------------------------------------------------------------------------
(* Claims about the process samples                                        *)

\* The list of a tag, empty when the tag has none.
TopList(top, tag) == IF tag \in DOMAIN top THEN top[tag] ELSE << >>

\* The %CPU text of a TOP row.
TopCpuText(row) == IF Len(row) > 3 THEN P(row, 3) ELSE "0"

\* C18 (Spec): only a row with key TOP whose field at position 2 begins
\* with the tag marker changes the process samples, whatever its field at
\* position 1; such a row whose %CPU decodes is accepted, and an accepted
\* row appends one sample, with the row's PID, to the end of the list of
\* its tag and changes no earlier entry and no other tag's list.
C18_TopRowsAppend ==
  [][parts' # << >> =>
       LET row == parts'
           old == top_data_by_tag
           new == top_data_by_tag'
       IN /\ (P(row, 0) = "TOP" /\ Len(row) > 2 /\ StartsWithT(P(row, 2))
              /\ (Strip(TopCpuText(row)) = "" \/ FloatOk(TopCpuText(row))))
             => new # old
          /\ new # old
             => /\ P(row, 0) = "TOP"
                /\ Len(row) > 2
                /\ StartsWithT(P(row, 2))
                /\ LET tag  == P(row, 2)
                       prev == TopList(old, tag)
                   IN /\ DOMAIN new = DOMAIN old \cup {tag}
                      /\ Len(new[tag]) = Len(prev) + 1
                      /\ SubSeq(new[tag], 1, Len(prev)) = prev
                      /\ new[tag][Len(prev) + 1]["PID"] = P(row, 1)
                      /\ \A t \in DOMAIN old \ {tag} : new[t] = old[t]
    ]_vars

\* C18, witness: T2 holds the samples of processes 101 and 106, in the
\* order their rows were read.
C18_Witness ==
  /\ parts = <<"TOP", "106", "T2", "7", "", "", "", "", "5", "7", "x">>
  /\ "T2" \in DOMAIN top_data_by_tag
  /\ Len(top_data_by_tag["T2"]) = 2
  /\ top_data_by_tag["T2"][1]["PID"] = "101"
  /\ top_data_by_tag["T2"][2]["PID"] = "106"

\* C19 (Spec): a TOP row with a tag at position 2 is dropped, its tag's
\* list unchanged, when its %CPU is neither blank nor a number; otherwise
\* its sample has CharIO = parts[10], or 0.0 when that is missing or no
\* number, and Memory = parts[8] + parts[9], or 0.0 when either is missing
\* or no number, each whatever the other is, with %CPU, Command and PID
\* as the row gives them.
C19_TopFailuresDecoupled ==
  [][(/\ parts' # << >>
      /\ P(parts', 0) = "TOP"
      /\ Len(parts') > 2
      /\ StartsWithT(P(parts', 2)))
     => LET row == parts'
            tag == P(row, 2)
            cpu == TopCpuText(row)
        IN IF Strip(cpu) # "" /\ ~FloatOk(cpu)
           THEN top_data_by_tag' = top_data_by_tag
           ELSE /\ tag \in DOMAIN top_data_by_tag'
                /\ LET e == top_data_by_tag'[tag][Len(top_data_by_tag'[tag])]
                   IN /\ e["CharIO"] =
                           (IF Len(row) > 10 /\ FloatOk(P(row, 10))
                            THEN Float(P(row, 10)) ELSE 0)
                      /\ e["Memory"] =
                           (IF Len(row) > 9 /\ FloatOk(P(row, 8))
                               /\ FloatOk(P(row, 9))
                            THEN Float(P(row, 8)) + Float(P(row, 9)) ELSE 0)
                      /\ e["%CPU"] = (IF Strip(cpu) = "" THEN 0 ELSE Float(cpu))
                      /\ e["PID"] = P(row, 1)
                      /\ e["Command"] =
                           (IF Len(row) > 13 THEN P(row, 13) ELSE "?")
    ]_vars

\* C19, witness: the row of process 106, whose char I/O is no number, is
\* kept with CharIO = 0.0 and Memory = 5 + 7; the row of process 105,
\* whose first memory field is no number, with Memory = 0.0 and CharIO = 5.
C19_Witness ==
  /\ "T2" \in DOMAIN top_data_by_tag
  /\ \E i, j \in DOMAIN top_data_by_tag["T2"] :
       /\ top_data_by_tag["T2"][i]["PID"] = "106"
       /\ top_data_by_tag["T2"][i]["CharIO"] = 0
       /\ top_data_by_tag["T2"][i]["Memory"] = 12000
       /\ top_data_by_tag["T2"][j]["PID"] = "105"
       /\ top_data_by_tag["T2"][j]["CharIO"] = 5000
       /\ top_data_by_tag["T2"][j]["Memory"] = 0

\* The accepted samples whose tag has a timestamp: (tag, position) pairs.
StampedSamples ==
  UNION {{<<t, k>> : k \in DOMAIN top_data_by_tag[t]} :
           t \in DOMAIN top_data_by_tag \cap DOMAIN zzzz_map}

\* The flat record of a sample: its tag's timestamp and its own fields.
Flat(p) ==
  [f \in {"@timestamp", "%CPU", "Command", "PID", "CharIO", "Memory"} |->
     IF f = "@timestamp" THEN zzzz_map[p[1]]
     ELSE top_data_by_tag[p[1]][p[2]][f]]

\* C20 (Spec): the returned process-sample list holds the flat record of
\* every accepted TOP row whose tag has a timestamp, as many times as
\* there are such rows with that record, and nothing else: one record per
\* row, with the tag's timestamp and the row's %CPU, Command, PID, CharIO
\* and Memory.
C20_TopDocsFlattened ==
  pc = "done" =>
    /\ Len(top_docs) = Cardinality(StampedSamples)
    /\ \A i \in DOMAIN top_docs :
         /\ \E p \in StampedSamples : top_docs[i] = Flat(p)
         /\ Cardinality({j \in DOMAIN top_docs : top_docs[j] = top_docs[i]})
              = Cardinality({p \in StampedSamples : Flat(p) = top_docs[i]})

\* C20, witness: two samples of T2, which has a timestamp, are returned
\* with it; the sample of T10, which has none, is not.
C20_Witness ==
  /\ pc = "done"
  /\ "T10" \in DOMAIN top_data_by_tag
  /\ "T10" \notin DOMAIN zzzz_map
  /\ Len(top_docs) = 2
  /\ top_docs[1]["PID"] = "101"
  /\ top_docs[2]["PID"] = "106"
  /\ \A i \in {1, 2} : top_docs[i]["@timestamp"] = zzzz_map["T2"]

\* C36 (SpecTop): a TOP row with a tag at position 2 and fewer than 14
\* fields is accepted exactly when a longer row would be, that is when its
\* %CPU field is missing, blank or a number; its sample is appended to
\* its tag's list with Command = "?", with %CPU = 0.0 when the row stops
\* before position 3, CharIO = 0.0 when it stops before position 10 and
\* Memory = 0.0 when it stops before position 9.
C36_ShortTopRowAccepted ==
  [][(/\ parts' # << >>
      /\ P(parts', 0) = "TOP"
      /\ Len(parts') > 2
      /\ Len(parts') < 14
      /\ StartsWithT(P(parts', 2)))
     => LET row  == parts'
            tag  == P(row, 2)
            cpu  == TopCpuText(row)
            prev == TopList(top_data_by_tag, tag)
            now  == TopList(top_data_by_tag', tag)
        IN IF Strip(cpu) # "" /\ ~FloatOk(cpu)
           THEN now = prev
           ELSE /\ Len(now) = Len(prev) + 1
                /\ now[Len(now)]["PID"] = P(row, 1)
                /\ now[Len(now)]["Command"] = "?"
                /\ Len(row) <= 3 => now[Len(now)]["%CPU"] = 0
                /\ Len(row) <= 10 => now[Len(now)]["CharIO"] = 0
                /\ Len(row) <= 9 => now[Len(now)]["Memory"] = 0
    ]_vars

\* C36, witness: the three-field row of process 104 and the ten-field row
\* of process 103 have been accepted, the first with every value
\* defaulted, the second with its %CPU and memory and no char I/O.
C36_Witness ==
  /\ "T10" \in DOMAIN top_data_by_tag
  /\ "T2" \in DOMAIN top_data_by_tag
  /\ \E i \in DOMAIN top_data_by_tag["T10"] :
       top_data_by_tag["T10"][i] =
         ("%CPU" :> 0) @@ ("Command" :> "?") @@ ("PID" :> "104")
         @@ ("CharIO" :> 0) @@ ("Memory" :> 0)
  /\ \E i \in DOMAIN top_data_by_tag["T2"] :
       top_data_by_tag["T2"][i] =
         ("%CPU" :> 7000) @@ ("Command" :> "?") @@ ("PID" :> "103")
         @@ ("CharIO" :> 0) @@ ("Memory" :> 12000)

\* The position of a tag in a sequence of distinct tags.
PlaceOf(seq, tag) == CHOOSE i \in DOMAIN seq : seq[i] = tag

\* How many of the first i returned samples belong to the tag of the i-th.
RankOf(i) ==
  Cardinality({j \in 1..i : top_docs_tag[j] = top_docs_tag[i]})

\* C37 (SpecTop): the tags of the samples are kept in the order of each
\* tag's first accepted TOP row (an accepted row of a new tag puts the tag
\* last, any other line leaves the order alone); the returned list takes
\* the tags in that order, which need not be sorted order, all samples of
\* one tag side by side, and within a tag the samples in the order of
\* their rows.
C37_SamplesInFirstSeenOrder ==
  /\ [][top_order' =
          IF /\ parts' # << >>
             /\ P(parts', 0) = "TOP"
             /\ DOMAIN top_data_by_tag' # DOMAIN top_data_by_tag
          THEN Append(top_order, P(parts', 2))
          ELSE top_order]_vars
  /\ [](pc = "done" =>
          /\ Len(top_docs_tag) = Len(top_docs)
          /\ \A i, j \in DOMAIN top_docs :
               (i < j /\ top_docs_tag[i] # top_docs_tag[j])
               => PlaceOf(top_order, top_docs_tag[i])
                    < PlaceOf(top_order, top_docs_tag[j])
          /\ \A i \in DOMAIN top_docs :
               top_docs[i] = Flat(<<top_docs_tag[i], RankOf(i)>>))

\* C37, witness: T2's first accepted row came before T10's, both tags
\* have a timestamp, and the sample of T2 is returned before the sample
\* of T10, although T10 sorts before T2.
C37_Witness ==
  /\ pc = "done"
  /\ top_order = <<"T2", "T10">>
  /\ StrLess("T10", "T2")
  /\ Len(top_docs) = 2
  /\ top_docs_tag = <<"T2", "T10">>
  /\ top_docs[1]["PID"] = "101"
  /\ top_docs[2]["PID"] = "104"

-----------------------------------------------------------------------------
(* Claims about what a step leaves alone (SpecRun)                         *)

\* The accumulators of the scan: the timestamp map, the section
\* accumulators with their headers, the process samples, the per-core
\* sums, the node name and the fallback date.
scanned ==
  <<zzzz_map, zzzz_order, node, fallback_date, header_parsed, header,
    data_by_tag, top_data_by_tag, top_order, cpu_use_data_by_tag>>

\* C29 (SpecRun): the assembly (build_all_docs, the enrichment loop,
\* build_top_docs) builds the documents and the process-sample records
\* and leaves the timestamp map and every accumulator as the scan left
\* them.
C29_AssemblyLeavesAccumulators ==
  [][pc = "scan" /\ pc' # "scan" /\ nlines' = nlines
       => UNCHANGED scanned]_vars

\* C29, witness: the assembly returned a document with a cpu_use section
\* and a process-sample record, and the timestamp, the per-core sums and
\* the samples they were built from are still there.
C29_Witness ==
  /\ pc = "done"
  /\ Len(all_docs) = 1
  /\ "cpu_use" \in DOMAIN all_docs[1]
  /\ Len(top_docs) = 1
  /\ "T2" \in DOMAIN zzzz_map
  /\ "T2" \in DOMAIN cpu_use_data_by_tag
  /\ "T2" \in DOMAIN top_data_by_tag
  /\ Len(top_data_by_tag["T2"]) = 1

\* A key some branch of some pass tests for.
Recognized(key) ==
  \/ key \in {"ZZZZ", "AAA", "TOP", "NETSIZE"}
  \/ key \in FixedKeys \cup DiscKeys \cup FcKeys
  \/ IsCoreKey(key)

\* C30 (SpecRun): reading a blank line, or a line whose first field is no
\* section key, changes nothing of the parse state (timestamp map,
\* accumulators, headers, node name, fallback date, what is returned)
\* and raises no error: the scan goes on.
C30_UnknownLineChangesNothing ==
  [][nlines' = nlines + 1 /\ ~Recognized(P(parts', 0))
       => /\ pc' = "scan"
          /\ UNCHANGED scanned
          /\ UNCHANGED <<all_docs, top_docs, node_out>>]_vars

\* C30, witness: a timestamp row and a per-core row were stored, then a
\* blank line and a line of an unknown key were read.
C30_Witness ==
  /\ pc = "scan"
  /\ nlines = 4
  /\ parts \in {<<"">>, <<"x", "T2", "5", "7">>}
  /\ zzzz_map # EmptyDict
  /\ cpu_use_data_by_tag # EmptyDict

-----------------------------------------------------------------------------
(* Claims about main (SpecMain)                                            *)

\* C26 (SpecMain), as stated: a task that raises is lost alone; main goes
\* on to merge the results of the other tasks and is never left by the
\* exception.
C26_FailureStaysInTask == mpc # "raised"

\* The documents (k = 2) or samples (k = 3) of the first n files whose
\* node identifier is id, one file after the other.
RECURSIVE CatOf(_, _, _)
CatOf(id, k, n) ==
  IF n = 0 THEN << >>
  ELSE CatOf(id, k, n - 1)
         \o (IF task_out[n][1] = id THEN task_out[n][k] ELSE << >>)

\* C27 (SpecMain): nothing is merged before every task has returned; the
\* merge loop then takes the results in the order of the files, whatever
\* the order the tasks ended in, so that after n results each map has
\* the node identifiers of the first n files and, for each, the documents
\* (or samples) of those files with that identifier, file after file,
\* each file's in the order returned.
C27_MergedInTaskOrder ==
  /\ (merged > 0 \/ mpc \in {"merge", "done"})
       => \A f \in DOMAIN task : task[f] = "returned"
  /\ mpc \in {"pool", "raised"}
       => merged = 0 /\ lpar_data_map = EmptyDict /\ top_data_map = EmptyDict
  /\ mpc = "done" => merged = Len(task)
  /\ LET ids == {task_out[f][1] : f \in 1..merged}
     IN /\ DOMAIN lpar_data_map = ids
        /\ DOMAIN top_data_map = ids
        /\ \A id \in ids :
             /\ lpar_data_map[id] = CatOf(id, 2, merged)
             /\ top_data_map[id] = CatOf(id, 3, merged)

\* C27, witness: the task of the second file ended before that of the
\* first, both files have the node identifier host1, and the merged list
\* of host1 has the documents of the first file before those of the
\* second.
C27_Witness ==
  /\ mpc = "done"
  /\ finished = <<2, 1>>
  /\ task_out[1] = <<"host1", <<"d1", "d2">>, <<"p1">>>>
  /\ task_out[2] = <<"host1", <<"d3">>, << >>>>
  /\ lpar_data_map["host1"] = <<"d1", "d2", "d3">>
  /\ top_data_map["host1"] = <<"p1">>

-----------------------------------------------------------------------------
(* Claims about two calls of process_file (SpecTwice)                      *)

\* The local variables of call 1, which parses the file a second time.
Replay == IF turn = 1 THEN Locals ELSE other

\* The local variables of call 2, which parses the other file.
Beside == IF turn = 2 THEN Locals ELSE other

-----------------------------------------------------------------------------
(* Claims about the place of the timestamp rows (SpecMoved)                *)

\* When the line at place i of `file` is read by the call on the moved file.
ReadAt(i) == CHOOSE k \in DOMAIN moved : moved[k] = i

\* A timestamp row whose date fails the pattern is on the other side of a
\* metadata 'date' row than it is in `file`.
Crossed ==
  \E i, j \in DOMAIN file :
    /\ P(file[i], 0) = "AAA" /\ Len(file[i]) > 2 /\ P(file[i], 1) = "date"
    /\ IsZzzz(file[j]) /\ Len(file[j]) >= 4
    /\ ~DateMatches(Strip(P(file[j], 3)))
    /\ (i < j) # (ReadAt(i) < ReadAt(j))

\* The call on the moved file has read every line and returned.
MovedDone == phase = "moved" /\ pc # "scan" /\ Len(moved) = Len(file)

\* C31 (SpecMoved): a file and the file with its timestamp rows moved to
\* other places among the other lines (the timestamp rows in the same
\* order, and so the other lines) give the same timestamps, the same
\* documents and the same process samples, unless a timestamp row whose
\* date fails the pattern has changed sides with a metadata 'date' row.
C31_TimestampRowMayMove ==
  (MovedDone /\ ~Crossed) =>
    /\ Result(Locals) = Result(other)
    /\ zzzz_map = other.zzzz_map

\* C31, witness: the timestamp row of T2 was first in the file and is read
\* last, after the CPU_ALL row and the TOP row of T2; the document and the
\* sample of T2 are returned as before.
C31_Witness ==
  /\ MovedDone
  /\ ~Crossed
  /\ file = <<<<"ZZZZ", "T2", "00:02", "02-feb-2025">>,
              <<"CPU_ALL", "T2", "5", "7", "", "5">>,
              <<"TOP", "101", "T2", "5", "", "", "", "", "5", "7", "5", "",
                "", "ksh">>>>
  /\ moved = <<2, 3, 1>>
  /\ Len(all_docs) = 1
  /\ Len(top_docs) = 1
  /\ all_docs[1]["@timestamp"] = "02-feb-2025 00:02"

\* A timestamp row with a date that fails the pattern was read before the
\* 'date' row in the file and after it in the moved file: the timestamp of
\* T2 is another.
C31_DateRowCrossed ==
  /\ MovedDone
  /\ Crossed
  /\ "T2" \in DOMAIN zzzz_map
  /\ zzzz_map["T2"] # other.zzzz_map["T2"]

-----------------------------------------------------------------------------
(* Claims about timestamps and the node identifier (SpecDate)              *)

\* A step reads a timestamp row with its four fields.
ZzzzRead ==
  /\ nlines' = nlines + 1
  /\ Len(parts') >= 4
  /\ P(parts', 0) = "ZZZZ"

\* A step reads a metadata row with the given sub-key and a value.
MetaRead(sub) ==
  /\ nlines' = nlines + 1
  /\ Len(parts') > 2
  /\ P(parts', 0) = "AAA"
  /\ P(parts', 1) = sub

\* C21, as stated: a date that fails the pattern is replaced by the value
\* of the most recent 'date' row before it, whatever that value is.
C21_ReplacedByLastDateRow ==
  [][ZzzzRead /\ ~DateMatches(Strip(P(parts', 3))) /\ fallback_date # NoneStr
       => zzzz_map'[P(parts', 1)]
            = fallback_date \o " " \o P(parts', 2)]_vars

\* C21 (SpecDate), amended: the fallback date is the value of the most
\* recent 'date' row.  A timestamp row whose date, trimmed and upper-cased,
\* fails the pattern gets the fallback date if that value is not
\* empty and keeps its own date otherwise; a date that passes is kept as
\* written; the timestamp stored is the date, a space, the time.
C21_ReplacedByNonEmptyFallback ==
  [][/\ MetaRead("date") => fallback_date' = P(parts', 2)
     /\ ~MetaRead("date") => fallback_date' = fallback_date
     /\ ZzzzRead =>
          LET d == Strip(P(parts', 3))
              date == IF DateMatches(d) THEN d
                      ELSE IF fallback_date \notin {NoneStr, ""}
                           THEN fallback_date ELSE d
          IN zzzz_map'[P(parts', 1)] = date \o " " \o P(parts', 2)]_vars

\* C21, witness: after two 'date' rows, the date of a timestamp row that
\* fails the pattern has been replaced by the later one.
C21_Witness ==
  /\ nlines = 3
  /\ parts = <<"ZZZZ", "T2", "00:01", " 1-JAN-25">>
  /\ fallback_date = "01-JAN-2025"
  /\ node = NoneStr
  /\ "T2" \in DOMAIN zzzz_map
  /\ zzzz_map["T2"] = "01-JAN-2025 00:01"

\* C22 (SpecDate): a timestamp row whose date fails the pattern, read
\* before any 'date' row, stores its own date text (the field without
\* surrounding blanks) in the timestamp; the timestamp of a tag changes
\* only when a timestamp row of that tag is read, so a 'date' row read
\* later leaves it as it is.
C22_InvalidDateKept ==
  [][/\ ZzzzRead /\ ~DateMatches(Strip(P(parts', 3)))
          /\ fallback_date = NoneStr
        => zzzz_map'[P(parts', 1)]
             = Strip(P(parts', 3)) \o " " \o P(parts', 2)
     /\ \A t \in DOMAIN zzzz_map :
          zzzz_map'[t] # zzzz_map[t] => ZzzzRead /\ P(parts', 1) = t
     /\ DOMAIN zzzz_map \subseteq DOMAIN zzzz_map']_vars

\* C22, witness: a 'date' row has been read after the timestamp row of
\* T2, whose timestamp still has the date that fails the pattern.
C22_Witness ==
  /\ nlines = 2
  /\ parts = <<"AAA", "date", "01-JAN-2025">>
  /\ fallback_date = "01-JAN-2025"
  /\ "T2" \in DOMAIN zzzz_map
  /\ zzzz_map["T2"] = "1-JAN-25 00:01"

\* C23 (SpecDate): the map has one timestamp per tag and every tag was
\* entered once; a timestamp row sets the timestamp of its tag to its own
\* date (or the fallback) and time, adds no second entry for a tag already
\* there, and leaves the other tags as they are.
C23_OneTimestampPerTag ==
  /\ [](/\ DOMAIN zzzz_map = Range(zzzz_order)
        /\ Len(zzzz_order) = Cardinality(DOMAIN zzzz_map))
  /\ [][ZzzzRead =>
          LET tag == P(parts', 1)
          IN /\ DOMAIN zzzz_map' = DOMAIN zzzz_map \cup {tag}
             /\ zzzz_map'[tag] \in
                  {d \o " " \o P(parts', 2) :
                     d \in {Strip(P(parts', 3)), fallback_date}}
             /\ \A t \in DOMAIN zzzz_map \ {tag} :
                  zzzz_map'[t] = zzzz_map[t]]_vars

\* C23, witness: two timestamp rows of T2 have been read and T2 has the
\* timestamp of the second.
C23_Witness ==
  /\ nlines = 2
  /\ node = NoneStr
  /\ fallback_date = NoneStr
  /\ parts = <<"ZZZZ", "T2", "00:02", "02-feb-2025">>
  /\ zzzz_order = <<"T2">>
  /\ "T2" \in DOMAIN zzzz_map
  /\ zzzz_map["T2"] = "02-feb-2025 00:02"

\* C24, as stated: the identifier is the value of the NodeName row whenever
\* such a row was read.
C24_NodeNameRowWins ==
  pc = "done" => node_out = IF node # NoneStr THEN node ELSE BaseName

\* C24 (SpecDate), amended: the identifier is set when the scan is over
\* and not before; it is the value of the last NodeName row read if that
\* value is not empty, and the filename stem if it is empty or no NodeName
\* row was read.
C24_LastNonEmptyNodeName ==
  /\ [][/\ MetaRead("NodeName") => node' = P(parts', 2)
        /\ ~MetaRead("NodeName") => node' = node]_vars
  /\ [](pc = "scan" => node_out = NoneStr)
  /\ [](pc = "done" =>
          node_out = IF node \notin {NoneStr, ""} THEN node ELSE BaseName)

\* C24, witness: the last NodeName row read had an empty value and the
\* identifier is the filename stem.
C24_Witness ==
  /\ pc = "done"
  /\ nlines = 2
  /\ node = ""
  /\ node_out = BaseName

====
